---- MODULE Spec2Model ----
(***************************************************************************)
(* State-machine model of backend/app.py: the /get-stats handler           *)
(* (sync-and-summarize), the /process-timelines handler, the match and     *)
(* match_timeline_summary tables they share, and the upstream API they     *)
(* talk to.                                                                *)
(*                                                                         *)
(* Time.  The clock `now` counts ticks of 100 ms.  Seconds are counted     *)
(* from the instant that lies 365 days before the first state, so that     *)
(* datetime.now() - timedelta(days=365), in seconds, is now \div           *)
(* TicksPerSec.  Match start timestamps are milliseconds on the same axis. *)
(***************************************************************************)
EXTENDS Integers, Sequences, FiniteSets, TLC

VARIABLES
    now,            \* wall clock, in ticks
    matchTable,     \* rows of table `match`, in insertion order
    timelineTable,  \* rows of table `match_timeline_summary`
    calls,          \* the handler invocations in progress, one per slot
    last,           \* the response of the invocation that returned last
    lastSync,       \* per player: what the last finished /get-stats call did
    started,        \* number of requests received so far
    workers,        \* number of requests the server handles at once
    listLog,        \* match-ID listing requests issued: tick -> how many
    detailLog,      \* match-detail requests issued: tick -> how many
    slotLog,        \* permits of the semaphore taken: [acquired, finished, released] -> how many
    throttleLog,    \* 429 answers to detail requests: set of [at, until]
    retryLog,       \* the retry loops that have run: set of traces
    report,         \* what the last /get-stats or /get-timeline-stats call computed
    scan            \* the loop of process_single_match over the frames

vars == <<now, matchTable, timelineTable, calls, last, lastSync, started, workers,
          listLog, detailLog, slotLog, throttleLog, retryLog, report, scan>>

-----------------------------------------------------------------------------
(* Bounds of the model *)

MaxStarts == 3      \* requests received in one behaviour
MaxSecs == 1        \* the clock stops at this second
RPages == 2         \* full pages of match ids the upstream holds for player R
NFetch == 5         \* new match ids of player F
Latency == 1        \* ticks between a request and its response
MaxCount == 1       \* largest counter of a participant in a drawn payload
MaxRows == 3        \* matches of player S stored one after the other
MaxScan == 3        \* frames of a timeline that the milestones are read from
MaxFrames == 2      \* frames of a timeline that hold a gold difference
MaxArrivals == 1    \* matches of player R that end while a call pages
LastBatch == 1      \* new matches of player W beyond two full batches
Extra == 1          \* new match ids of player G beyond one batch

(* Constants of the program *)

TicksPerSec == 10
PageSize == 100         \* count=100, start += 100
MaxRetries == 5         \* while retries < 5
DbRetries == 3          \* retries = 3
BatchSize == 50         \* batch_size = 50
RateBudget == 20        \* if request_count >= 20
Concurrency == 15       \* asyncio.Semaphore(15), range(0, len(new_ids), 15)
PagePacing == 12        \* asyncio.sleep(1.2), in ticks
DetailPacing == 13      \* asyncio.sleep(1.3), in ticks
TimelineConcurrency == 10   \* asyncio.Semaphore(10), range(0, len(new_match_ids), 10)
TimelinePacing == 15        \* await asyncio.sleep(1.5), in ticks
DefaultRetryAfter == 120    \* headers.get("Retry-After", 120)

\* Two requests can be served at once.
Calls == {1, 2}

\* Numbers of throttling answers given to one request loop.
Throttles == {0, 1, MaxRetries}

\* Retry-After headers of the throttling answers, in seconds; NoHeader for
\* an answer without the header.
NoHeader == -1
RetryAfters == {NoHeader, 0, 1}

-----------------------------------------------------------------------------
(* The upstream API: players, their match lists and the match payloads *)

\* Players A and B share match 1.  Player R has a long history (the pager
\* needs several pages for it), player F a short one that is all new.
Players == {"A", "B"}

\* Match ids are numbers: 1, 2, 3 for A and B, 1000 + i for R,
\* 2000 + i for F, 3000 + i for G and 4000 + i for W.

\* Match-ID listing of a player, in server order (newest first).
Listing(p) ==
    CASE p = "A" -> <<2, 1>>
      [] p = "B" -> <<3, 1>>
      [] p = "R" -> [i \in 1..(RPages * PageSize + 1) |-> 1000 + i]
      [] p = "G" -> [i \in 1..(Concurrency + Extra) |-> 3000 + i]
      [] OTHER   -> [i \in 1..NFetch |-> 2000 + i]

\* info.participants[*].puuid of a match-detail payload.  Match 3 is listed
\* for B but its payload does not hold B's participant entry.
Participants(m) ==
    CASE m = 1 -> {"A", "B"}
      [] m = 2 -> {"A"}
      [] m = 3 -> {"C"}
      [] m > 4000 -> {"W"}
      [] m > 3000 /\ m <= 4000 -> {"G"}
      [] m > 2000 /\ m <= 3000 -> {"F"}
      [] OTHER -> {"R"}

\* info.gameStartTimestamp of a match, in ms.
GameStart(m) ==
    CASE m = 1 -> 1500
      [] m = 2 -> 2700
      [] m = 3 -> 1900
      [] OTHER -> 3000 + m

\* None, where a Match is expected.
None == [id |-> 0, puuid |-> "None", timestamp |-> 0]

\* The listing of a player after n more matches have ended: the new ids
\* come first.
LiveListing(p, n) ==
    [j \in 1..n |-> 1000 + Len(Listing(p)) + (n - j + 1)] \o Listing(p)

\* The ids of `ids` whose match started at or after second `start_time`
\* (the upstream's startTime filter).
SeqFilterStart(ids, start_time) ==
    SelectSeq(ids, LAMBDA m : GameStart(m) \div 1000 >= start_time)

\* GET .../by-puuid/{puuid}/ids?startTime&start&count answered with 200.
\* `arrivals` matches of the player have ended since the handler began.
UpstreamPage(p, start_time, start, count, arrivals) ==
    LET all == SeqFilterStart(LiveListing(p, arrivals), start_time)
    IN  SubSeq(all, start + 1, IF start + count < Len(all) THEN start + count ELSE Len(all))

\* A response sequence of the upstream: k throttling answers, then `final`.
Responses(k, final) == [i \in 1..(k + 1) |-> IF i <= k THEN "429" ELSE final]

-----------------------------------------------------------------------------
(* The store *)

RowsOf(table, p) == SelectSeq(table, LAMBDA r : r.puuid = p)

HasRow(table, m, p) == \E i \in 1..Len(table) : table[i].id = m /\ table[i].puuid = p

SeqToSet(s) == {s[i] : i \in 1..Len(s)}

RECURSIVE MaxTimestamp(_)
MaxTimestamp(rows) ==
    IF rows = <<>> THEN 0
    ELSE LET t == MaxTimestamp(Tail(rows))
         IN  IF Head(rows).timestamp > t THEN Head(rows).timestamp ELSE t

\* Primary key of `match`: the column id alone (Match.id, primary_key=True).
MatchKey(r) == r.id

\* A table without a primary key refuses nothing.
NoPkViolation(table, batch) == FALSE

\* The INSERT of `batch` is rejected when a key is already in the table or
\* occurs twice in the batch.
PkViolation(table, batch) ==
    \/ \E i \in 1..Len(batch), j \in 1..Len(table) : MatchKey(batch[i]) = MatchKey(table[j])
    \/ \E i, j \in 1..Len(batch) : i < j /\ MatchKey(batch[i]) = MatchKey(batch[j])

-----------------------------------------------------------------------------
(* /get-stats *)

IdleCall ==
    [kind |-> "none", pc |-> "idle", puuid |-> "none", status |-> 0,
     start_time |-> 0, start |-> 0, match_ids |-> <<>>, new_ids |-> <<>>,
     results |-> <<>>, inserted |-> 0, existing_summaries |-> {},
     \* the tag of the request, the answer of the region endpoint, the cluster
     tag_line |-> "", region_status |-> "none", region |-> "", routing |-> "none",
     \* the requests sent to the account endpoint
     account_calls |-> 0,
     \* the matches of the player that ended while the handler was paging
     arrivals |-> 0,
     \* the pacing of the upstream requests
     request_count |-> 0, start_time_window |-> 0, turns |-> 0, batch_end |-> 0,
     \* what happened during the call
     stable |-> TRUE, prev |-> "none",
     pageFailed |-> FALSE, itemFailed |-> FALSE, dbFailed |-> FALSE,
     \* the status of the answer that ended the paging
     page_status |-> "none",
     \* the timelines read that gave no gold difference
     unproducible |-> 0]

\* What is kept of a call that has returned.
Response(rec) ==
    [kind |-> rec.kind, status |-> rec.status, account_calls |-> rec.account_calls,
     itemFailed |-> rec.itemFailed, dbFailed |-> rec.dbFailed]

\* No summary has been computed.
NoReport == [total_matches |-> 0]

\* None, where a milestone timestamp is expected.
NoTime == -1

\* The loop over the frames before its first turn, the milestones unset.
StartScan(frames) ==
    [frames |-> frames, frame_idx |-> 0,
     level_6_time |-> NoTime, level_11_time |-> NoTime, level_16_time |-> NoTime]

\* No timeline is being scanned.
NoScan == StartScan(<<>>)

NoSync == [state |-> "none", start_time |-> 0, inserted |-> 0]

\* The handler of slot c goes on as `rec`, or returns its response when
\* rec.pc is "done": the slot is free again and `last` keeps the call.
Continue(c, rec) ==
    IF rec.pc = "done"
    THEN /\ calls' = [calls EXCEPT ![c] = IdleCall]
         /\ last' = Response(rec)
    ELSE /\ calls' = [calls EXCEPT ![c] = rec]
         /\ UNCHANGED last

\* A new request is served by the first free slot.
FreeSlot(c) ==
    /\ started < MaxStarts
    /\ c <= workers
    /\ calls[c].pc = "idle"
    /\ \A d \in Calls : d < c => calls[d].pc # "idle"

-----------------------------------------------------------------------------
(* The routing cluster *)

americas == {"NA", "NA1", "BR", "BR1", "LA1", "LA2", "LAN", "LAS"}
europe == {"EUW", "EUW1", "EUN1", "EUNE", "TR1", "TR", "RU", "ME1"}
asia == {"KR", "JP1", "JP"}
sea == {"OC1", "OCE", "SG2", "PH2", "TW2", "VN2", "TH2"}

\* No value: Python's None.
NoRegion == "<None>"

\* The strings that tags and regions are drawn from: the entries of the four
\* tables, some of them in lower case, and strings of no table.
RegionStrings ==
    americas \cup europe \cup asia \cup sea \cup {"na1", "euw1", "kr", "oc1", "XYZ", "xyz"}

\* str.upper() on these strings.
Upper(s) ==
    CASE s = "na1" -> "NA1"
      [] s = "euw1" -> "EUW1"
      [] s = "kr" -> "KR"
      [] s = "oc1" -> "OC1"
      [] s = "xyz" -> "XYZ"
      [] OTHER -> s

\* The region endpoint answered `status` ("exc": the request raised) with
\* `region` in its body (NoRegion: no such key).
get_active_region(status, region) ==
    IF status = "200"
    THEN IF region # NoRegion /\ region # "" THEN Upper(region) ELSE NoRegion
    ELSE NoRegion

\* A resolver that reads the active region only.
get_routing_cluster_region_only(tag_line, active_region) ==
    LET t == IF active_region # NoRegion /\ active_region # "" THEN Upper(active_region) ELSE ""
    IN  IF t \in americas THEN "americas"
        ELSE IF t \in europe THEN "europe"
        ELSE IF t \in asia THEN "asia"
        ELSE IF t \in sea THEN "sea"
        ELSE "americas"
get_routing_cluster(tag_line, active_region) ==
    LET t == IF active_region # NoRegion /\ active_region # ""
             THEN Upper(active_region)
             ELSE Upper(IF tag_line # NoRegion THEN tag_line ELSE "")
    IN  IF t \in americas THEN "americas"
        ELSE IF t \in europe THEN "europe"
        ELSE IF t \in asia THEN "asia"
        ELSE IF t \in sea THEN "sea"
        ELSE "americas"

\* The region lookup and the routing of the call in slot c, whose account
\* lookup gave a puuid.
ResolveRouting(c) ==
    /\ calls[c].pc = "routing"
    /\ LET me == calls[c]
           active_region == get_active_region(me.region_status, me.region)
       IN  calls' = [calls EXCEPT ![c] =
              [me EXCEPT !.routing = get_routing_cluster(me.tag_line, active_region),
                         !.pc = "routed"]]
    /\ UNCHANGED <<now, matchTable, timelineTable, last, lastSync, started, workers, scan,
                   listLog, detailLog, slotLog, throttleLog, retryLog, report>>

-----------------------------------------------------------------------------

\* A lower bound that ignores the stored rows.
StartTimeNoWatermark(table, p, t) == t \div TicksPerSec
\* Step 2: the lower bound of the pull.
StartTime(table, p, t) ==
    IF RowsOf(table, p) # <<>>
    THEN MaxTimestamp(RowsOf(table, p)) \div 1000
    ELSE t \div TicksPerSec

ActiveSync(p) == {c \in Calls : calls[c].kind = "sync" /\ calls[c].puuid = p}

\* The statuses the account endpoint answers with.
AccountStatuses == {200, 403, 404, 503}

\* An account lookup whose answer is never an error.
AccountErrorIgnored(status, hasPuuid) == 0
\* The status the handler returns after the account lookup, 0 when it goes
\* on: the upstream status when it is not 200, 500 when the body has no puuid.
AccountError(status, hasPuuid) ==
    IF status = 403 THEN 403
    ELSE IF status = 404 THEN 404
    ELSE IF status # 200 THEN status
    ELSE IF ~hasPuuid THEN 500
    ELSE 0

\* Step 1 and 2: the account lookup, answered with `status` and with or
\* without a puuid, then the watermark query.
SyncStart(c, p, status, hasPuuid) ==
    /\ FreeSlot(c)
    /\ IF AccountError(status, hasPuuid) # 0
       THEN Continue(c, [IdleCall EXCEPT !.kind = "sync", !.pc = "done", !.account_calls = 1,
                                         !.status = AccountError(status, hasPuuid)])
       ELSE /\ calls' = [d \in Calls |->
                IF d = c
                THEN [IdleCall EXCEPT
                        !.kind = "sync", !.pc = "paging", !.puuid = p, !.account_calls = 1,
                        !.start_time = StartTime(matchTable, p, now),
                        !.stable = (ActiveSync(p) = {}),
                        !.prev = IF ActiveSync(p) = {} THEN lastSync[p].state ELSE "none"]
                ELSE IF d \in ActiveSync(p)
                THEN [calls[d] EXCEPT !.stable = FALSE]
                ELSE calls[d]]
            /\ UNCHANGED last
    /\ started' = started + 1
    /\ UNCHANGED <<now, matchTable, timelineTable, lastSync, workers, scan, listLog, detailLog, slotLog, throttleLog, retryLog, report>>
RECURSIVE fetch_match_ids_loop(_, _, _, _)
\* The retry loop of fetch_match_ids over the responses rs, from attempt i
\* on: the page, whether it came from a failure, the requests made and the
\* status of the last answer.
fetch_match_ids_loop(page, rs, i, retries) ==
    IF retries >= MaxRetries
    THEN [ids |-> <<>>, failed |-> TRUE, exc |-> FALSE, requests |-> i - 1, status |-> "429"]
    ELSE IF rs[i] = "429"
    THEN fetch_match_ids_loop(page, rs, i + 1, retries + 1)
    ELSE IF rs[i] = "exc"
    THEN [ids |-> <<>>, failed |-> TRUE, exc |-> TRUE, requests |-> i, status |-> "exc"]
    ELSE IF rs[i] # "200"
    THEN [ids |-> <<>>, failed |-> TRUE, exc |-> FALSE, requests |-> i, status |-> rs[i]]
    ELSE [ids |-> page, failed |-> FALSE, exc |-> FALSE, requests |-> i, status |-> "200"]

\* A pager for which an answer other than 200 and 429 is an exception.
fetch_match_ids_raising(p, start_time, start, rs, arrivals) ==
    LET got == fetch_match_ids_loop(UpstreamPage(p, start_time, start, PageSize, arrivals),
                                    rs, 1, 0)
    IN  IF got.status \notin {"200", "429"} THEN [got EXCEPT !.exc = TRUE] ELSE got
fetch_match_ids(p, start_time, start, rs, arrivals) ==
    fetch_match_ids_loop(UpstreamPage(p, start_time, start, PageSize, arrivals), rs, 1, 0)

\* A pager that leaves out every second page.
NextStartSkipping(start) == start + 2 * PageSize
\* start += 100 after a page that held ids.
NextStart(start) == start + PageSize

\* Step 3: one turn of the paging loop.  An exception of the request ends
\* the handler with status 500.
FetchPage(c, k, final) ==
    /\ calls[c].kind = "sync" /\ calls[c].pc = "paging"
    /\ LET me == calls[c]
           got == fetch_match_ids(me.puuid, me.start_time, me.start, Responses(k, final),
                                  me.arrivals)
       IN  Continue(c,
              IF got.exc
              THEN [me EXCEPT !.pc = "done", !.status = 500, !.pageFailed = TRUE]
              ELSE IF got.ids = <<>>
              THEN [me EXCEPT !.pc = "diff", !.pageFailed = got.failed,
                              !.page_status = got.status]
              ELSE [me EXCEPT !.match_ids = me.match_ids \o got.ids,
                              !.start = NextStart(me.start)])
    /\ UNCHANGED <<now, matchTable, timelineTable, lastSync, started, workers, scan, listLog, detailLog, slotLog, throttleLog, retryLog, report>>

\* Step 4, first half: the ids with no row for this player.
NewIds(table, match_ids, p) ==
    LET existing_pairs ==
            {<<table[i].id, table[i].puuid>> :
                i \in {j \in 1..Len(table) : table[j].id \in SeqToSet(match_ids)}}
    IN  SelectSeq(match_ids, LAMBDA mid : <<mid, p>> \notin existing_pairs)

DiffStore(c) ==
    /\ calls[c].kind = "sync" /\ calls[c].pc = "diff"
    /\ LET me == calls[c]
           new_ids == NewIds(matchTable, me.match_ids, me.puuid)
       IN  Continue(c, [me EXCEPT !.new_ids = new_ids,
                                  !.pc = IF new_ids = <<>> THEN "summary" ELSE "fetch"])
    /\ UNCHANGED <<now, matchTable, timelineTable, lastSync, started, workers, scan, listLog, detailLog, slotLog, throttleLog, retryLog, report>>

RECURSIVE fetch_match_details_loop(_, _, _, _, _)
\* The retry loop of fetch_match_details over the responses rs.
fetch_match_details_loop(match_id, p, rs, i, retries) ==
    IF retries >= MaxRetries
    THEN [row |-> None, failed |-> TRUE, exc |-> FALSE, requests |-> i - 1]
    ELSE IF rs[i] = "429"
    THEN fetch_match_details_loop(match_id, p, rs, i + 1, retries + 1)
    ELSE IF rs[i] = "exc"
    THEN [row |-> None, failed |-> TRUE, exc |-> TRUE, requests |-> i]
    ELSE IF rs[i] # "200"
    THEN [row |-> None, failed |-> TRUE, exc |-> FALSE, requests |-> i]
    ELSE IF p \notin Participants(match_id)
    THEN [row |-> None, failed |-> FALSE, exc |-> FALSE, requests |-> i]
    ELSE [row |-> [id |-> match_id, puuid |-> p, timestamp |-> GameStart(match_id)],
          failed |-> FALSE, exc |-> FALSE, requests |-> i]

\* A fetcher whose count of retries begins one below zero.
fetch_match_details_one_more(match_id, p, rs) ==
    fetch_match_details_loop(match_id, p, rs, 1, -1)
fetch_match_details(match_id, p, rs) == fetch_match_details_loop(match_id, p, rs, 1, 0)

new_matches(results) == SelectSeq(results, LAMBDA m : m # None)

\* Step 4, second half: the detail fetch of the next new id.  An exception
\* of one item leaves asyncio.gather and ends the handler with status 500.
FetchDetail(c, k, final) ==
    /\ calls[c].kind = "sync" /\ calls[c].pc = "fetch"
    /\ LET me == calls[c]
           mid == me.new_ids[Len(me.results) + 1]
           got == fetch_match_details(mid, me.puuid, Responses(k, final))
           results == Append(me.results, got.row)
       IN  Continue(c,
              IF got.exc
              THEN [me EXCEPT !.pc = "done", !.status = 500, !.itemFailed = TRUE]
              ELSE [me EXCEPT
                      !.results = results,
                      !.itemFailed = me.itemFailed \/ got.failed,
                      !.pc = IF Len(results) < Len(me.new_ids) THEN "fetch"
                             ELSE IF new_matches(results) = <<>> THEN "summary"
                             ELSE "insert"])
    /\ UNCHANGED <<now, matchTable, timelineTable, lastSync, started, workers, scan, listLog, detailLog, slotLog, throttleLog, retryLog, report>>

\* execute_values(INSERT INTO match ... VALUES %s, values): the new table.
\* An INSERT that keeps the last row of the batch only.
InsertRowsLastOnly(table, batch) == table \o <<batch[Len(batch)]>>
InsertRows(table, batch) == table \o batch

RECURSIVE insert_loop(_, _, _)
\* The retry loop around one INSERT when the first `fails` attempts end in
\* an OperationalError: whether an attempt went through, and the attempts.
insert_loop(retries, fails, attempts) ==
    IF retries <= 0 THEN [ok |-> TRUE, attempts |-> attempts]
    ELSE IF fails = 0 THEN [ok |-> TRUE, attempts |-> attempts + 1]
    ELSE IF retries - 1 = 0 THEN [ok |-> FALSE, attempts |-> attempts + 1]
    ELSE insert_loop(retries - 1, fails - 1, attempts + 1)

\* A write of all the rows that are left in one batch.
BatchEndAll(from, n) == n
\* new_matches[i:i + batch_size]: the index of the last row of the batch
\* that begins after row `from`, of n rows.
BatchEnd(from, n) == IF from + BatchSize < n THEN from + BatchSize ELSE n

\* Step 5: the INSERT of the next batch.  Every exception ends the loop over
\* the batches and is caught by the handler, which goes on to step 6.
InsertBatch(c, fails) ==
    /\ calls[c].kind = "sync" /\ calls[c].pc = "insert"
    /\ LET me == calls[c]
           all == new_matches(me.results)
           from == me.inserted
           upto == BatchEnd(from, Len(all))
           batch == SubSeq(all, from + 1, upto)
           db == insert_loop(DbRetries, fails, 0)
       IN  IF ~db.ok
           THEN /\ Continue(c, [me EXCEPT !.pc = "summary", !.dbFailed = TRUE])
                /\ UNCHANGED matchTable
           ELSE IF PkViolation(matchTable, batch)
           THEN /\ Continue(c, [me EXCEPT !.pc = "summary"])
                /\ UNCHANGED matchTable
           ELSE /\ matchTable' = InsertRows(matchTable, batch)
                /\ Continue(c,
                      [me EXCEPT !.inserted = me.inserted + Len(batch),
                                 !.pc = IF upto < Len(all) THEN "insert" ELSE "summary"])
    /\ UNCHANGED <<now, timelineTable, lastSync, started, workers, scan, listLog, detailLog, slotLog, throttleLog, retryLog, report>>

\* Whether a call met no failure of a page, an item or a write.
Clean(me) ==
    /\ ~me.pageFailed /\ ~me.itemFailed
    /\ me.inserted = Len(new_matches(me.results))

\* Step 6: the summary over the player's rows; the call answers 200.
Summarize(c) ==
    /\ calls[c].kind = "sync" /\ calls[c].pc = "summary"
    /\ LET me == calls[c]
       IN  /\ Continue(c, [me EXCEPT !.pc = "done", !.status = 200])
           /\ lastSync' = [lastSync EXCEPT ![me.puuid] =
                  IF me.stable
                  THEN [state |-> IF Clean(me) THEN "clean" ELSE "failed",
                        start_time |-> me.start_time, inserted |-> me.inserted]
                  ELSE NoSync]
    /\ UNCHANGED <<now, matchTable, timelineTable, started, workers, scan, listLog, detailLog, slotLog, throttleLog, retryLog, report>>

-----------------------------------------------------------------------------
(* /process-timelines *)

NoSummary == [match_id |-> 0, puuid |-> "None"]

\* Primary key of `match_timeline_summary`: (match_id, puuid).
TimelineKey(r) == <<r.match_id, r.puuid>>

TimelinePkViolation(table, batch) ==
    \/ \E i \in 1..Len(batch), j \in 1..Len(table) :
            TimelineKey(batch[i]) = TimelineKey(table[j])
    \/ \E i, j \in 1..Len(batch) : i < j /\ TimelineKey(batch[i]) = TimelineKey(batch[j])

RECURSIVE Ids(_)
Ids(rows) == IF rows = <<>> THEN <<>> ELSE <<Head(rows).id>> \o Ids(Tail(rows))

\* A selection that ignores the existing summaries.
new_match_ids_unfiltered(match_ids, existing_summaries, p) == match_ids
\* Step 3: the matches of the player that have no summary yet.
new_match_ids(match_ids, existing_summaries, p) ==
    SelectSeq(match_ids, LAMBDA mid : <<mid, p>> \notin existing_summaries)

\* Steps 1 to 3: account lookup, the player's matches, the summaries that
\* exist, the ids to process.
TimelineStart(c, p, status, hasPuuid) ==
    /\ FreeSlot(c)
    /\ LET match_ids == Ids(RowsOf(matchTable, p))
           existing == {TimelineKey(r) : r \in SeqToSet(RowsOf(timelineTable, p))}
           new_ids == new_match_ids(match_ids, existing, p)
           me == [IdleCall EXCEPT !.kind = "timeline", !.puuid = p, !.account_calls = 1]
       IN  Continue(c,
              IF status # 200 THEN [me EXCEPT !.pc = "done", !.status = status]
              ELSE IF ~hasPuuid THEN [me EXCEPT !.pc = "done", !.status = 500]
              ELSE IF match_ids = <<>> THEN [me EXCEPT !.pc = "done", !.status = 404]
              ELSE [me EXCEPT !.match_ids = match_ids,
                              !.existing_summaries = existing,
                              !.new_ids = new_ids,
                              !.pc = IF new_ids = <<>> THEN "respond" ELSE "fetch"])
    /\ started' = started + 1
    /\ UNCHANGED <<now, matchTable, timelineTable, lastSync, workers, scan, listLog, detailLog, slotLog, throttleLog, retryLog, report>>

RECURSIVE process_single_match_loop(_, _, _, _, _, _)
\* The retry loop of process_single_match over the responses rs of the
\* timeline endpoint.  hasDiffs: the companion match-detail request is
\* answered 200 and some frame holds the player's and an enemy's gold.
\* Every exception is caught and yields None.
\* The result holds the summary, the requests sent to the timeline endpoint
\* and the requests sent to the match endpoint for the teams.
process_single_match_loop(match_id, p, rs, hasDiffs, i, retries) ==
    IF retries >= MaxRetries
    THEN [summary |-> NoSummary, requests |-> i - 1, companion |-> 0]
    ELSE IF rs[i] = "429"
    THEN process_single_match_loop(match_id, p, rs, hasDiffs, i + 1, retries + 1)
    ELSE IF rs[i] # "200"
    THEN [summary |-> NoSummary, requests |-> i, companion |-> 0]
    ELSE IF p \notin Participants(match_id)
    THEN [summary |-> NoSummary, requests |-> i, companion |-> 0]
    ELSE IF ~hasDiffs
    THEN [summary |-> NoSummary, requests |-> i, companion |-> 1]
    ELSE [summary |-> [match_id |-> match_id, puuid |-> p], requests |-> i, companion |-> 1]

process_single_match_run(match_id, p, rs, hasDiffs) ==
    process_single_match_loop(match_id, p, rs, hasDiffs, 1, 0)

\* The timeline of the match was read and gave no gold difference.
Unproducible(match_id, p, rs, hasDiffs) ==
    LET got == process_single_match_run(match_id, p, rs, hasDiffs)
    IN  got.summary = NoSummary /\ got.companion = 1

\* An analysis that returns a summary without gold differences.
process_single_match_partial(match_id, p, rs, hasDiffs) ==
    process_single_match_run(match_id, p, rs, TRUE).summary
process_single_match(match_id, p, rs, hasDiffs) ==
    process_single_match_run(match_id, p, rs, hasDiffs).summary

\* Step 4: the next id of new_match_ids.
TimelineFetch(c, k, final, hasDiffs) ==
    /\ calls[c].kind = "timeline" /\ calls[c].pc = "fetch"
    /\ LET me == calls[c]
           mid == me.new_ids[Len(me.results) + 1]
           got == process_single_match(mid, me.puuid, Responses(k, final), hasDiffs)
           results == Append(me.results, got)
           successful == SelectSeq(results, LAMBDA r : r # NoSummary)
       IN  Continue(c,
              [me EXCEPT !.results = results,
                         !.itemFailed = me.itemFailed \/ got = NoSummary,
                         !.unproducible = me.unproducible +
                              IF Unproducible(mid, me.puuid, Responses(k, final), hasDiffs)
                              THEN 1 ELSE 0,
                         !.pc = IF Len(results) < Len(me.new_ids) THEN "fetch"
                                ELSE IF successful = <<>> THEN "respond"
                                ELSE "commit"])
    /\ UNCHANGED <<now, matchTable, timelineTable, lastSync, started, workers, scan, listLog, detailLog, slotLog, throttleLog, retryLog, report>>

\* Step 5: all summaries are added and committed in one transaction; any
\* exception rolls it back and the call answers 500.
TimelineCommit(c, dbOk) ==
    /\ calls[c].kind = "timeline" /\ calls[c].pc = "commit"
    /\ LET me == calls[c]
           results == SelectSeq(me.results, LAMBDA r : r # NoSummary)
       IN  IF dbOk /\ ~TimelinePkViolation(timelineTable, results)
           THEN /\ timelineTable' = timelineTable \o results
                /\ Continue(c, [me EXCEPT !.pc = "respond", !.inserted = Len(results)])
           ELSE /\ UNCHANGED timelineTable
                /\ Continue(c, [me EXCEPT !.pc = "done", !.status = 500,
                                           !.dbFailed = TRUE])
    /\ UNCHANGED <<now, matchTable, lastSync, started, workers, scan, listLog, detailLog, slotLog, throttleLog, retryLog, report>>

\* After the commit, or with nothing to insert: the call answers 200 with
\* processed = inserted.
TimelineRespond(c) ==
    /\ calls[c].kind = "timeline" /\ calls[c].pc = "respond"
    /\ Continue(c, [calls[c] EXCEPT !.pc = "done", !.status = 200])
    /\ UNCHANGED <<now, matchTable, timelineTable, lastSync, started, workers, scan, listLog, detailLog, slotLog, throttleLog, retryLog, report>>

-----------------------------------------------------------------------------
(* /get-stats, steps 3 and 4 with the times of the upstream requests *)

\* The log after n requests, the first at tick t and one every `gap` ticks.
RECURSIVE LogRequests(_, _, _, _)
LogRequests(log, t, n, gap) ==
    IF n = 0 THEN log
    ELSE LogRequests(IF t \in DOMAIN log THEN [log EXCEPT ![t] = @ + 1]
                     ELSE log @@ (t :> 1),
                     t + gap, n - 1, gap)

\* The tick at which a request loop returns that began at t0, made n
\* requests `gap` ticks apart and was throttled k times: a throttled-out loop
\* ends after its last sleep, the others with the last response.
LoopEnd(t0, n, gap, k) ==
    IF k >= MaxRetries THEN t0 + n * gap ELSE t0 + (n - 1) * gap + Latency

\* int(response.headers.get("Retry-After", 120)), in ticks.
retry_after(h) == (IF h = NoHeader THEN DefaultRetryAfter ELSE h) * TicksPerSec

\* The trace of a retry loop that began at t, made n requests `gap` ticks
\* apart and got the answers rs: the offset of the page (0 for a match or a
\* timeline), the ticks of the requests, the answers to
\* them, the Retry-After header of the throttling answers (NoHeader when
\* no answer throttles), the tick the loop returned at and whether it
\* returned an empty page or no record.
Trace(kind, item, t, n, gap, rs, ra, end, empty) ==
    [kind |-> kind, item |-> item,
     sent |-> [i \in 1..n |-> t + (i - 1) * gap],
     answers |-> [i \in 1..n |-> rs[i]],
     header |-> IF \E i \in 1..n : rs[i] = "429" THEN ra ELSE NoHeader,
     end |-> end, empty |-> empty]

\* A pager without the delay between pages.
NoPaceAfterPage(t) == t
\* await asyncio.sleep(1.2) after a page that held ids.
PaceAfterPage(t) == t + PagePacing

\* Step 3: one turn of the paging loop: the rate check, fetch_match_ids with
\* its retries (k throttling answers with Retry-After ra, then `final`), the
\* count of the turn and the delay before the next page.
PageTurn(c, k, ra, final) ==
    /\ calls[c].kind = "sync" /\ calls[c].pc = "paging"
    /\ LET me == calls[c]
           full == me.request_count >= RateBudget
           elapsed == now - me.start_time_window
           t0 == IF full /\ elapsed < TicksPerSec
                 THEN now + (TicksPerSec - elapsed) ELSE now
           counted == [me EXCEPT
                         !.request_count = (IF full THEN 0 ELSE me.request_count) + 1,
                         !.start_time_window = IF full THEN t0 ELSE me.start_time_window,
                         !.turns = me.turns + 1]
           got == fetch_match_ids(me.puuid, me.start_time, me.start, Responses(k, final),
                                  me.arrivals)
           gap == Latency + retry_after(ra)
           back == LoopEnd(t0, got.requests, gap, k)
       IN  /\ listLog' = LogRequests(listLog, t0, got.requests, gap)
           /\ retryLog' = retryLog \cup
                 {Trace("page", me.start, t0, got.requests, gap, Responses(k, final), ra, back,
                        got.ids = <<>>)}
           /\ IF got.exc
              THEN /\ Continue(c, [me EXCEPT !.pc = "done", !.status = 500,
                                             !.pageFailed = TRUE])
                   /\ now' = back
              ELSE IF got.ids = <<>>
              THEN /\ Continue(c, [counted EXCEPT !.pc = "diff", !.pageFailed = got.failed,
                                                  !.page_status = got.status])
                   /\ now' = back
              ELSE /\ Continue(c, [counted EXCEPT
                                     !.match_ids = me.match_ids \o got.ids,
                                     !.start = NextStart(me.start)])
                   /\ now' = PaceAfterPage(back)
    /\ UNCHANGED <<matchTable, timelineTable, lastSync, started, workers, scan, detailLog, slotLog, throttleLog, report>>

\* The slots taken so far, with one more: the task took its permit at
\* e.acquired, fetch_match_details returned or raised at e.finished and the
\* permit was given back at e.released.
LogSlot(log, e) ==
    IF e \in DOMAIN log THEN [log EXCEPT ![e] = @ + 1] ELSE log @@ (e :> 1)

\* The waits announced to a task that began at t, made n requests `gap`
\* ticks apart and was throttled k times: each 429 arrives Latency after its
\* request and the task sleeps until the next request.
ThrottleWindows(t, n, gap, k) ==
    {[at |-> t + (i - 1) * gap + Latency, until |-> t + i * gap] :
        i \in 1..(IF k < n THEN k ELSE n)}

\* await asyncio.sleep(1.3) inside `async with semaphore`.
ReleaseSlot(t) == t + DetailPacing

\* A match of the player ends while the handler of slot c is between two
\* page requests: the upstream lists it first from now on.
NewMatchPlayed(c) ==
    /\ calls[c].kind = "sync" /\ calls[c].pc = "paging" /\ calls[c].puuid = "R"
    /\ calls[c].arrivals < MaxArrivals
    /\ calls' = [calls EXCEPT ![c].arrivals = @ + 1]
    /\ UNCHANGED <<now, matchTable, timelineTable, last, lastSync, started, workers, scan,
                   listLog, detailLog, slotLog, throttleLog, retryLog, report>>

\* Step 4, second half: safe_fetch of the next new id.  The tasks of a batch
\* of 15 start together at `now` and each holds one of the 15 permits; they
\* are taken one after the other here, each on its own clock, and
\* asyncio.gather returns when the last of them has slept its 1.3 s.
SafeFetch(c, k, ra, final) ==
    /\ calls[c].kind = "sync" /\ calls[c].pc = "fetch"
    /\ LET me == calls[c]
           idx == Len(me.results) + 1
           got == fetch_match_details(me.new_ids[idx], me.puuid, Responses(k, final))
           gap == Latency + retry_after(ra)
           back == LoopEnd(now, got.requests, gap, k)
           released == IF got.exc THEN back ELSE ReleaseSlot(back)
           batch_end == IF released > me.batch_end THEN released ELSE me.batch_end
           results == Append(me.results, got.row)
           gathered == idx % Concurrency = 0 \/ idx = Len(me.new_ids)
       IN  /\ detailLog' = LogRequests(detailLog, now, got.requests, gap)
           /\ slotLog' = LogSlot(slotLog, [acquired |-> now, finished |-> back,
                                            released |-> released])
           /\ throttleLog' = throttleLog \cup ThrottleWindows(now, got.requests, gap, k)
           /\ retryLog' = retryLog \cup
                 {Trace("detail", 0, now, got.requests, gap, Responses(k, final), ra, back,
                        got.row = None)}
           /\ IF got.exc
              THEN /\ Continue(c, [me EXCEPT !.pc = "done", !.status = 500,
                                             !.itemFailed = TRUE])
                   /\ now' = back
              ELSE /\ Continue(c, [me EXCEPT
                        !.results = results,
                        !.itemFailed = me.itemFailed \/ got.failed,
                        !.batch_end = batch_end,
                        !.pc = IF Len(results) < Len(me.new_ids) THEN "fetch"
                               ELSE IF new_matches(results) = <<>> THEN "summary"
                               ELSE "insert"])
                   /\ now' = IF gathered THEN batch_end ELSE now
    /\ UNCHANGED <<matchTable, timelineTable, lastSync, started, workers, scan, listLog, report>>

\* /process-timelines, step 4: safe_process of the next new id.  The tasks
\* of a batch of 10 start together at `now`, each with one of the 10
\* permits; process_single_match catches every exception and returns None.
\* The request for the teams follows the timeline, Latency later.
SafeProcess(c, k, ra, final, hasDiffs) ==
    /\ calls[c].kind = "timeline" /\ calls[c].pc = "fetch"
    /\ LET me == calls[c]
           idx == Len(me.results) + 1
           got == process_single_match_run(me.new_ids[idx], me.puuid,
                                           Responses(k, final), hasDiffs)
           gap == Latency + retry_after(ra)
           back == LoopEnd(now, got.requests, gap, k) + got.companion * Latency
           released == back + TimelinePacing
           batch_end == IF released > me.batch_end THEN released ELSE me.batch_end
           results == Append(me.results, got.summary)
           successful == SelectSeq(results, LAMBDA r : r # NoSummary)
           gathered == idx % TimelineConcurrency = 0 \/ idx = Len(me.new_ids)
       IN  /\ retryLog' = retryLog \cup
                 {Trace("timeline", 0, now, got.requests, gap, Responses(k, final), ra, back,
                        got.summary = NoSummary)}
           /\ Continue(c, [me EXCEPT
                  !.results = results,
                  !.itemFailed = me.itemFailed \/ got.summary = NoSummary,
                  !.unproducible = me.unproducible +
                       IF got.summary = NoSummary /\ got.companion = 1 THEN 1 ELSE 0,
                  !.batch_end = batch_end,
                  !.pc = IF Len(results) < Len(me.new_ids) THEN "fetch"
                         ELSE IF successful = <<>> THEN "respond"
                         ELSE "commit"])
           /\ now' = IF gathered THEN batch_end ELSE now
    /\ UNCHANGED <<matchTable, timelineTable, lastSync, started, workers, scan,
                   listLog, detailLog, slotLog, throttleLog, report>>

-----------------------------------------------------------------------------
(* /get-stats, the match payload and the statistics of step 6 *)

RECURSIVE Sum(_)
\* sum(...) over a sequence of numbers.
Sum(ns) == IF ns = <<>> THEN 0 ELSE Head(ns) + Sum(Tail(ns))

\* A participant of info.participants, with the fields the row is built from.
Participant(puuid, teamId, win, kills, deaths, assists, damage, gold, vision) ==
    [puuid |-> puuid, teamId |-> teamId, win |-> win,
     kills |-> kills, deaths |-> deaths, assists |-> assists,
     totalDamageDealtToChampions |-> damage, goldEarned |-> gold, visionScore |-> vision]

\* dict.get(key, default): the value under the key, the default without it.
Get(dict, key, default) == IF key \in DOMAIN dict THEN dict[key] ELSE default

\* The length in seconds of a game that was played out.
FullGame == 1500

\* The match-detail payloads drawn for player S: an enemy, S and a team
\* mate, every counter of S and of the mate that a share is computed from
\* between 0 and MaxCount, in a game that was played out; and two payloads
\* of a game without length, info.gameDuration being 0 or left out.
Payloads ==
    { [gameStartTimestamp |-> 0,
       gameDuration |-> FullGame,
       participants |->
          << Participant("E", 200, FALSE, MaxCount + 1, 0, MaxCount + 1,
                         MaxCount + 1, MaxCount + 1, MaxCount + 1),
             Participant("S", 100, TRUE, c[1], 1, c[2], c[3], c[4], c[5]),
             Participant("T", 100, TRUE, c[6], 1, 0, c[7], c[8], c[9]) >>] :
      c \in [1..9 -> 0..MaxCount] }
    \cup { [gameStartTimestamp |-> 0,
            gameDuration |-> 0,
            participants |-> << Participant("S", 100, FALSE, 0, 0, 0, 0, 0, 0) >>],
           [gameStartTimestamp |-> 0,
            participants |-> << Participant("S", 100, FALSE, 0, 0, 0, 0, 0, 0) >>] }

\* The team without the player.
team_mates(participants, participant) ==
    SelectSeq(participants, LAMBDA q : q.teamId = participant.teamId
                                       /\ q.puuid # participant.puuid)

\* The participants of the player's team, the player included.
team_participants(participants, participant) ==
    SelectSeq(participants, LAMBDA q : q.teamId = participant.teamId)

\* A payload of player S and one team mate.
SeasonPayload(timestamp, win, kills, deaths, assists) ==
    [gameStartTimestamp |-> timestamp,
     gameDuration |-> FullGame,
     participants |-> << Participant("S", 100, win, kills, deaths, assists, 1, 1, 1),
                         Participant("T", 100, win, 1, 1, 1, 1, 1, 1) >>]

\* Payloads of a season of player S: the last millisecond of January, the
\* first of February, a later day of February and the first millisecond.
SeasonPayloads ==
    { SeasonPayload(86399999, TRUE, 2, 1, 3),
      SeasonPayload(86400000, FALSE, 0, 4, 0),
      SeasonPayload(1728000000, TRUE, 1, 0, 1),
      SeasonPayload(0, FALSE, 3, 2, 2) }

\* The payloads of a player with 10 matches, 6 of them won, and 24 kills,
\* 40 deaths and 60 assists in all.
ExamplePayloads ==
    [i \in 1..10 |->
        IF i <= 6 THEN SeasonPayload(i * 200000000, TRUE, 4, 4, 6)
        ELSE SeasonPayload(i * 200000000, FALSE, 0, 4, 6)]

\* A payload of player S alone with the given kills, deaths and assists, in
\* one of three forms of damage, damage taken, lane and jungle minions and
\* length: the first two differ in every field but the length and the
\* minions in all, the third one is not below either and lasts longer.
ExtremePayload(kills, deaths, assists, form) ==
    [gameStartTimestamp |-> 0,
     gameDuration |-> IF form = 3 THEN FullGame + 1 ELSE FullGame,
     participants |->
        << [totalDamageTaken |-> IF form = 1 THEN 0 ELSE 1,
            totalMinionsKilled |-> IF form = 1 THEN 0 ELSE 1,
            neutralMinionsKilled |-> IF form = 2 THEN 0 ELSE 1]
              @@ Participant("S", 100, TRUE, kills, deaths, assists,
                             IF form = 2 THEN 0 ELSE 1, 0, 0) >>]

\* The payloads the extreme games are chosen among.
ExtremePayloads ==
    {ExtremePayload(kills, deaths, assists, form) :
        kills \in {0, 1}, deaths \in {0, 2}, assists \in {0, 1}, form \in 1..3}

\* The Match that fetch_match_details builds from a payload answered with
\* 200: the columns that step 6 reads.
MatchFromPayload(match_id, p, payload) ==
    LET participants == payload.participants
        mine == SelectSeq(participants, LAMBDA q : q.puuid = p)
    IN  IF mine = <<>> THEN None
        ELSE LET participant == Head(mine)
                 team == team_participants(participants, participant)
                 n == Len(team)
             IN  [id |-> match_id, puuid |-> p,
                  duration |-> Get(payload, "gameDuration", 0),
                  timestamp |-> Get(payload, "gameStartTimestamp", 0),
                  win |-> participant.win,
                  kills |-> participant.kills,
                  deaths |-> participant.deaths,
                  assists |-> participant.assists,
                  damage |-> participant.totalDamageDealtToChampions,
                  damage_taken |-> Get(participant, "totalDamageTaken", 0),
                  cs |-> Get(participant, "totalMinionsKilled", 0),
                  neutral_cs |-> Get(participant, "neutralMinionsKilled", 0),
                  gold |-> participant.goldEarned,
                  vision |-> participant.visionScore,
                  team_kills |-> Sum([i \in 1..n |-> team[i].kills]),
                  team_damage |-> Sum([i \in 1..n |-> team[i].totalDamageDealtToChampions]),
                  team_gold |-> Sum([i \in 1..n |-> team[i].goldEarned]),
                  team_vision |-> Sum([i \in 1..n |-> team[i].visionScore])]

\* The quotient n / d of two numbers, kept exact.
Ratio(n, d) == [num |-> n, den |-> d]

\* Kill participation of a match.
kp(match) ==
    IF match.team_kills > 0
    THEN Ratio(match.kills + match.assists, match.team_kills) ELSE Ratio(0, 1)

damage_share(match) ==
    IF match.team_damage > 0 THEN Ratio(match.damage, match.team_damage) ELSE Ratio(0, 1)

gold_share(match) ==
    IF match.team_gold > 0 THEN Ratio(match.gold, match.team_gold) ELSE Ratio(0, 1)

vision_share(match) ==
    IF match.team_vision > 0 THEN Ratio(match.vision, match.team_vision) ELSE Ratio(0, 1)

\* datetime.fromtimestamp(timestamp / 1000).strftime("%Y-%m") as the number
\* 100 * year + month, for a server on UTC.  The timestamps of the model
\* count from 1970-01-31 00:00, day 30 of the year.
MonthOf(timestamp) ==
    LET day == 30 + (timestamp \div 1000) \div 86400
        year == 1970 + day \div 365
        d == day % 365
        month == CASE d < 31 -> 1 [] d < 59 -> 2 [] d < 90 -> 3 [] d < 120 -> 4
                   [] d < 151 -> 5 [] d < 181 -> 6 [] d < 212 -> 7 [] d < 243 -> 8
                   [] d < 273 -> 9 [] d < 304 -> 10 [] d < 334 -> 11 [] OTHER -> 12
    IN  100 * year + month

\* A month bucket that does not count the wins.
monthly_update_no_wins(stats, match) ==
    [matches |-> stats.matches + 1, wins |-> stats.wins,
     total_kills |-> stats.total_kills + match.kills]

\* "Update monthly stats": the bucket of the month after one more match.
monthly_update(stats, match) ==
    [matches |-> stats.matches + 1,
     wins |-> IF match.win THEN stats.wins + 1 ELSE stats.wins,
     total_kills |-> stats.total_kills + match.kills]

RECURSIVE monthly_loop(_, _)
\* The loop over all_matches that fills monthly_stats, a bucket being
\* created when its month is met first.
monthly_loop(all_matches, monthly_stats) ==
    IF all_matches = <<>> THEN monthly_stats
    ELSE LET match == Head(all_matches)
             month == MonthOf(match.timestamp)
             known == IF month \in DOMAIN monthly_stats THEN monthly_stats
                      ELSE monthly_stats @@
                           (month :> [matches |-> 0, wins |-> 0, total_kills |-> 0])
         IN  monthly_loop(Tail(all_matches),
                          [known EXCEPT ![month] = monthly_update(known[month], match)])

\* 100 * n / d cut to the hundredth below.
Floor2(n, d) == (100 * n) \div d

\* n / d to two decimals, in hundredths: round(x, 2) and f"{x:.2f}" take the
\* nearest hundredth, and the even one of two that are equally near.
Round2(n, d) ==
    LET q == (100 * n) \div d
        r == (100 * n) % d
    IN  IF 2 * r < d THEN q
        ELSE IF 2 * r > d THEN q + 1
        ELSE IF q % 2 = 0 THEN q ELSE q + 1

\* a < b for two quotients with positive denominators.
RatioLess(a, b) == a.num * b.den < b.num * a.den

\* kda(match) of the extreme game analytics.
kda(match) ==
    IF match.deaths > 0 THEN Ratio(match.kills + match.assists, match.deaths)
    ELSE Ratio(match.kills + match.assists, 1)

\* A key as max reads it (sign 1) and as min does (sign -1).
SignedKey(sign, key) == [key EXCEPT !.num = sign * @]

\* A replacement test that also lets an equal key through.
ReplacesOnTie(sign, key, best) ==
    ~RatioLess(SignedKey(sign, key), SignedKey(sign, best))
\* The test of max (sign 1: key > best) and of min (sign -1: key < best)
\* for taking an item in place of the best one so far.
Replaces(sign, key, best) ==
    RatioLess(SignedKey(sign, best), SignedKey(sign, key))

RECURSIVE extreme_loop(_, _, _, _)
\* max(all_matches, key=...) and min(all_matches, key=...) over the keys of
\* the matches: the place of the best item after the items from i on.
extreme_loop(keys, sign, i, best) ==
    IF i > Len(keys) THEN best
    ELSE extreme_loop(keys, sign, i + 1,
                      IF Replaces(sign, keys[i], keys[best]) THEN i ELSE best)

\* The place max (sign 1) or min (sign -1) returns for a non-empty sequence.
extreme_index(keys, sign) == extreme_loop(keys, sign, 2, 1)

\* The keys the extreme games are chosen by, per match.
ExtremeKeys(all_matches) ==
    LET n == Len(all_matches)
        By(field(_)) == [i \in 1..n |-> field(all_matches[i])]
        kills(m) == Ratio(m.kills, 1)
        deaths(m) == Ratio(m.deaths, 1)
        assists(m) == Ratio(m.assists, 1)
        damage(m) == Ratio(m.damage, 1)
        damage_taken(m) == Ratio(m.damage_taken, 1)
        cs(m) == Ratio(m.cs + m.neutral_cs, 1)
        duration(m) == Ratio(m.duration, 1)
    IN  [kills |-> By(kills), deaths |-> By(deaths), assists |-> By(assists),
         damage |-> By(damage), damage_taken |-> By(damage_taken), cs |-> By(cs),
         kda |-> By(kda), duration |-> By(duration)]

\* The extreme games of a player with matches.
extreme_games(all_matches) ==
    LET keys == ExtremeKeys(all_matches)
        game(k, sign) == all_matches[extreme_index(k, sign)]
    IN  [highest_kill_game |-> game(keys.kills, 1),
         highest_death_game |-> game(keys.deaths, 1),
         highest_assist_game |-> game(keys.assists, 1),
         highest_damage_game |-> game(keys.damage, 1),
         highest_damage_taken_game |-> game(keys.damage_taken, 1),
         highest_cs_game |-> game(keys.cs, 1),
         best_kda_game |-> game(keys.kda, 1),
         worst_kda_game |-> game(keys.kda, -1),
         fastest_game |-> game(keys.duration, -1),
         longest_game |-> game(keys.duration, 1)]

\* Step 6 over the rows all_matches of the player: the totals, the per-match
\* values of the loop over all_matches, the averages and the month buckets.
Summary(all_matches) ==
    LET total_matches == Len(all_matches)
        total_wins == Sum([i \in 1..total_matches |-> IF all_matches[i].win THEN 1 ELSE 0])
        total_kills == Sum([i \in 1..total_matches |-> all_matches[i].kills])
        total_deaths == Sum([i \in 1..total_matches |-> all_matches[i].deaths])
        total_assists == Sum([i \in 1..total_matches |-> all_matches[i].assists])
    IN  IF total_matches = 0 THEN NoReport
        ELSE [total_matches |-> total_matches,
              total_wins |-> total_wins,
              total_kills |-> total_kills,
              total_deaths |-> total_deaths,
              total_assists |-> total_assists,
              win_rate |-> Round2(100 * total_wins, total_matches),
              avg_kills |-> Round2(total_kills, total_matches),
              avg_deaths |-> Round2(total_deaths, total_matches),
              avg_assists |-> Round2(total_assists, total_matches),
              monthly_stats |-> monthly_loop(all_matches, <<>>),
              extreme_games |-> extreme_games(all_matches),
              kp |-> [i \in 1..total_matches |-> kp(all_matches[i])],
              damage_share |-> [i \in 1..total_matches |-> damage_share(all_matches[i])],
              gold_share |-> [i \in 1..total_matches |-> gold_share(all_matches[i])],
              vision_share |-> [i \in 1..total_matches |-> vision_share(all_matches[i])]]

\* Steps 4 and 5 for one new match of player S whose detail request is
\* answered 200 with `payload`: the row is built and inserted.
StoreMatch(payload, limit) ==
    /\ Len(matchTable) < limit
    /\ LET row == MatchFromPayload(100 + Len(matchTable) + 1, "S", payload)
       IN  /\ row # None
           /\ ~PkViolation(matchTable, <<row>>)
           /\ matchTable' = InsertRows(matchTable, <<row>>)
    /\ UNCHANGED <<now, timelineTable, calls, last, lastSync, started, workers, scan,
                   listLog, detailLog, slotLog, throttleLog, retryLog, report>>

\* Step 6 of a call of player S.
Report ==
    /\ report' = Summary(RowsOf(matchTable, "S"))
    /\ UNCHANGED <<now, matchTable, timelineTable, calls, last, lastSync, started, workers, scan,
                   listLog, detailLog, slotLog, throttleLog, retryLog>>

-----------------------------------------------------------------------------
\* A quotient against a whole number.
RatioGt(r, n) == r.num > n * r.den
RatioLt(r, n) == r.num < n * r.den

\* Gold differences around the thresholds of the classification.
DiffValues == {-900, -501, -500, -200, -101, -100, 50, 100, 101, 150, 500, 501, 800, 900}

\* gold_diffs: one (timestamp, my gold - average enemy gold) pair per frame
\* that holds both; frame i is at 5 minutes times i, or a millisecond later.
GoldDiffs ==
    UNION {{[i \in 1..n |-> <<300000 * i + off, d[i]>>] : d \in [1..n -> DiffValues]} :
              n \in 0..MaxFrames, off \in {0, 1}}

\* Average of the differences of the first 10 minutes, 0 when there is none.
early_dominance(gold_diffs) ==
    LET early_diffs == SelectSeq(gold_diffs, LAMBDA g : g[1] <= 600000)
    IN  IF early_diffs # <<>>
        THEN Ratio(Sum([i \in 1..Len(early_diffs) |-> early_diffs[i][2]]), Len(early_diffs))
        ELSE Ratio(0, 1)

\* A classification whose early thresholds are inclusive.
comeback_type_inclusive(early, last_diff) ==
    IF ~RatioLt(early, 100) /\ last_diff > 500 THEN "dominated"
    ELSE IF ~RatioGt(early, -100) /\ last_diff > 500 THEN "comeback"
    ELSE IF ~RatioLt(early, 100) /\ last_diff < -500 THEN "throw"
    ELSE IF ~RatioGt(early, -100) /\ last_diff < -500 THEN "fell_behind"
    ELSE "neutral"
\* A classification with a sixth label for the matches that are even.
comeback_type_even(early, last_diff) ==
    IF RatioGt(early, 100) /\ last_diff > 500 THEN "dominated"
    ELSE IF RatioLt(early, -100) /\ last_diff > 500 THEN "comeback"
    ELSE IF RatioGt(early, 100) /\ last_diff < -500 THEN "throw"
    ELSE IF RatioLt(early, -100) /\ last_diff < -500 THEN "fell_behind"
    ELSE "even"
\* Comeback type of a match from early_dominance and all_diffs[-1].
comeback_type(early, last_diff) ==
    IF RatioGt(early, 100) /\ last_diff > 500 THEN "dominated"
    ELSE IF RatioLt(early, -100) /\ last_diff > 500 THEN "comeback"
    ELSE IF RatioGt(early, 100) /\ last_diff < -500 THEN "throw"
    ELSE IF RatioLt(early, -100) /\ last_diff < -500 THEN "fell_behind"
    ELSE "neutral"

\* The insights of process_single_match that the classification reads and
\* writes: None without gold differences, else the summary with the early
\* dominance, the last difference (not a column of the row) and the label.
Insights(match_id, p, gold_diffs) ==
    IF gold_diffs = <<>> THEN NoSummary
    ELSE LET early == early_dominance(gold_diffs)
             last_diff == gold_diffs[Len(gold_diffs)][2]
         IN  [match_id |-> match_id, puuid |-> p,
              early_dominance |-> early, last_diff |-> last_diff,
              comeback_type |-> comeback_type(early, last_diff)]

\* /process-timelines for one match of S whose frames give gold_diffs: the
\* summary, when there is one, is added to the table.
ProcessTimeline(gold_diffs, limit) ==
    /\ Len(timelineTable) < limit
    /\ LET result == Insights(100 + Len(timelineTable) + 1, "S", gold_diffs)
       IN  timelineTable' = IF result = NoSummary THEN timelineTable
                            ELSE Append(timelineTable, result)
    /\ UNCHANGED <<now, matchTable, calls, last, lastSync, started, workers, scan,
                   listLog, detailLog, slotLog, throttleLog, retryLog, report>>

\* sum(1 for r in rows if r.comeback_type == label)
CountType(rows, label) == Len(SelectSeq(rows, LAMBDA r : r.comeback_type = label))

\* Steps 2 and 5 of get_timeline_stats over the summaries of the player:
\* the number of rows and the comeback pattern counts.
timeline_stats(rows) ==
    IF rows = <<>> THEN NoReport
    ELSE [total_matches |-> Len(rows),
          comeback_pattern |->
             [comeback_wins |-> CountType(rows, "comeback"),
              throws |-> CountType(rows, "throw"),
              dominant_wins |-> CountType(rows, "dominated"),
              fell_behind_losses |-> CountType(rows, "fell_behind"),
              neutral_games |-> CountType(rows, "neutral")]]

\* /get-timeline-stats of player S: the response body, or no body with 404
\* when the player has no summary.
TimelineStats ==
    /\ report' = timeline_stats(RowsOf(timelineTable, "S"))
    /\ UNCHANGED <<now, matchTable, timelineTable, calls, last, lastSync, started,
                   workers, scan, listLog, detailLog, slotLog, throttleLog, retryLog>>

\* Gold differences far below, within and far above the thresholds.
TallyDiffs ==
    {g \in GoldDiffs : \A i \in 1..Len(g) : g[i][2] \in {-900, 50, 900}}

\* Levels around the three milestones.
Levels == {5, 6, 10, 11, 15, 16, 18}

\* A frame at `ts` ms with the participant frame pf of the player.
Frame(ts, pf) == [timestamp |-> ts, pf |-> pf]

\* The frames that can stand at place i of a timeline, one per minute from
\* 0 ms on: the player at a level, the player's frame without a level, or
\* no frame of the player at all.
FramesAt(i) ==
    LET ts == 60000 * (i - 1)
    IN  {Frame(ts, [level |-> l, totalGold |-> 500]) : l \in Levels}
           \cup {Frame(ts, [totalGold |-> 500]), [timestamp |-> ts]}

\* info.frames of a timeline of up to MaxScan frames.
FrameSeqs ==
    UNION {{f \in [1..n -> UNION {FramesAt(i) : i \in 1..n}] :
               \A i \in 1..n : f[i] \in FramesAt(i)} : n \in 0..MaxScan}

\* A test for levels above the threshold only.
ReachedAbove(level, threshold) == level > threshold
\* The level test of a milestone.
Reached(level, threshold) == level >= threshold

\* A milestone after a frame at `ts` with the player at `level`.
Latch(time, level, threshold, ts) ==
    IF Reached(level, threshold) /\ time = NoTime THEN ts ELSE time

\* One turn of the loop over the frames: a frame without the player is
\* skipped, any other one latches the milestones its level reaches.
ScanFrame ==
    /\ scan.frame_idx < Len(scan.frames)
    /\ LET frame == scan.frames[scan.frame_idx + 1]
           ts == Get(frame, "timestamp", 0)
       IN  scan' =
             IF "pf" \notin DOMAIN frame
             THEN [scan EXCEPT !.frame_idx = @ + 1]
             ELSE LET level == Get(frame.pf, "level", 1)
                  IN  [scan EXCEPT !.frame_idx = @ + 1,
                                   !.level_6_time = Latch(@, level, 6, ts),
                                   !.level_11_time = Latch(@, level, 11, ts),
                                   !.level_16_time = Latch(@, level, 16, ts)]
    /\ UNCHANGED <<now, matchTable, timelineTable, calls, last, lastSync, started,
                   workers, listLog, detailLog, slotLog, throttleLog, retryLog, report>>


\* Time passes by one second.
Tick ==
    /\ now + TicksPerSec <= MaxSecs * TicksPerSec
    /\ now' = now + TicksPerSec
    /\ UNCHANGED <<matchTable, timelineTable, calls, last, lastSync, started, workers, scan, listLog, detailLog, slotLog, throttleLog, retryLog, report>>

Init ==
    /\ now = 0
    /\ matchTable = <<>>
    /\ timelineTable = <<>>
    /\ calls = [c \in Calls |-> IdleCall]
    /\ last = Response(IdleCall)
    /\ lastSync = [p \in Players |-> NoSync]
    /\ started = 0
    /\ workers = 1
    /\ scan = NoScan
    /\ listLog = <<>>
    /\ detailLog = <<>>
    /\ slotLog = <<>>
    /\ throttleLog = {}
    /\ retryLog = {}
    /\ report = NoReport

\* The steps of the two handlers.
Handlers ==
    \/ \E c \in Calls, p \in Players, status \in AccountStatuses, hasPuuid \in BOOLEAN :
          SyncStart(c, p, status, hasPuuid)
    \/ \E c \in Calls, k \in Throttles, final \in {"200", "500", "exc"} :
          FetchPage(c, k, final)
    \/ \E c \in Calls : DiffStore(c)
    \/ \E c \in Calls, k \in Throttles, final \in {"200", "500", "exc"} :
          FetchDetail(c, k, final)
    \/ \E c \in Calls, fails \in 0..DbRetries : InsertBatch(c, fails)
    \/ \E c \in Calls : Summarize(c)
    \/ \E c \in Calls, p \in Players, status \in {200, 404, 503}, hasPuuid \in BOOLEAN :
          TimelineStart(c, p, status, hasPuuid)
    \/ \E c \in Calls, k \in Throttles, final \in {"200", "500", "exc"}, hasDiffs \in BOOLEAN :
          TimelineFetch(c, k, final, hasDiffs)
    \/ \E c \in Calls, dbOk \in BOOLEAN : TimelineCommit(c, dbOk)
    \/ \E c \in Calls : TimelineRespond(c)

Next == Handlers \/ Tick

Spec == Init /\ [][Next]_vars

\* The server handles two requests at once, within one second.  It has
\* answered one request so
\* far: a /get-stats call that ended at the account lookup, or a /get-stats
\* call of player A that stored both matches of A.
InitConc ==
    /\ now = 0
    /\ timelineTable = <<>>
    /\ calls = [c \in Calls |-> IdleCall]
    /\ started = 1
    /\ workers = 2
    /\ scan = NoScan
    /\ listLog = <<>>
    /\ detailLog = <<>>
    /\ slotLog = <<>>
    /\ throttleLog = {}
    /\ retryLog = {}
    /\ report = NoReport
    /\ \/ /\ matchTable = <<>>
          /\ last = Response([IdleCall EXCEPT !.kind = "sync", !.status = 404, !.account_calls = 1])
          /\ lastSync = [p \in Players |-> NoSync]
       \/ /\ matchTable = <<[id |-> 2, puuid |-> "A", timestamp |-> GameStart(2)],
                              [id |-> 1, puuid |-> "A", timestamp |-> GameStart(1)]>>
          /\ last = Response([IdleCall EXCEPT !.kind = "sync", !.status = 200, !.account_calls = 1])
          /\ lastSync = [p \in Players |->
                IF p = "A" THEN [state |-> "clean", start_time |-> 0, inserted |-> 2]
                ELSE NoSync]

SpecConc == InitConc /\ [][Handlers]_vars

\* The rows of player A after a sync that stored both matches of A.
StoredA ==
    <<[id |-> 2, puuid |-> "A", timestamp |-> GameStart(2)],
      [id |-> 1, puuid |-> "A", timestamp |-> GameStart(1)]>>

\* A sync call about to fetch the details of the matches of player p, none
\* of them stored.
FetchingCall(p) ==
    [IdleCall EXCEPT !.kind = "sync", !.pc = "fetch", !.puuid = p, !.account_calls = 1,
                     !.start_time = StartTime(<<>>, p, 0),
                     !.match_ids = Listing(p),
                     !.new_ids = NewIds(<<>>, Listing(p), p),
                     !.turns = 2, !.request_count = 2]

\* One call on its way, with the times of its upstream requests: the sync
\* call of player R, about to page through R's match list; the sync call of
\* player F or of player G, about to fetch the details of the player's
\* matches, none of them stored; or the /process-timelines call of player A,
\* whose two matches are stored and have no summary.
InitRate ==
    /\ now = 0
    /\ timelineTable = <<>>
    /\ last = Response(IdleCall)
    /\ lastSync = [p \in Players |-> NoSync]
    /\ started = 1
    /\ workers = 1
    /\ scan = NoScan
    /\ listLog = <<>>
    /\ detailLog = <<>>
    /\ slotLog = <<>>
    /\ throttleLog = {}
    /\ retryLog = {}
    /\ report = NoReport
    /\ \/ /\ matchTable = <<>>
          /\ calls = [c \in Calls |->
                IF c = 1
                THEN [IdleCall EXCEPT !.kind = "sync", !.pc = "paging", !.puuid = "R",
                                      !.account_calls = 1,
                                      !.start_time = StartTime(<<>>, "R", 0)]
                ELSE IdleCall]
       \/ /\ matchTable = <<>>
          /\ \E p \in {"F", "G"} :
                calls = [c \in Calls |-> IF c = 1 THEN FetchingCall(p) ELSE IdleCall]
       \/ /\ matchTable = StoredA
          /\ calls = [c \in Calls |->
                IF c = 1
                THEN [IdleCall EXCEPT !.kind = "timeline", !.pc = "fetch", !.puuid = "A",
                                      !.account_calls = 1,
                                      !.match_ids = Ids(StoredA),
                                      !.new_ids = new_match_ids(Ids(StoredA), {}, "A")]
                ELSE IdleCall]

\* The answers of the upstream to the requests of one page or one match of
\* player p: k throttling answers with Retry-After ra, then `final`.  The
\* matches of G are throttled once at most and answered 200.
Answers(p) ==
    IF p = "G" THEN {0, 1} \X {0, 1} \X {"200"}
    ELSE Throttles \X RetryAfters \X {"200", "500", "exc"}

NextRate ==
    \E c \in Calls : \E a \in Answers(calls[c].puuid) :
        \/ PageTurn(c, a[1], a[2], a[3])
        \/ SafeFetch(c, a[1], a[2], a[3])
        \/ \E hasDiffs \in BOOLEAN : SafeProcess(c, a[1], a[2], a[3], hasDiffs)
        \/ NewMatchPlayed(c)

SpecRate == InitRate /\ [][NextRate]_vars

\* The sync call of player R pages through R's match list while a match of
\* R may end.  Every page request is answered in the end: the paging loop
\* takes its next turn.
InitPager == InitRate /\ calls[1].pc = "paging"

PageTurns == \E c \in Calls : \E a \in Answers(calls[c].puuid) : PageTurn(c, a[1], a[2], a[3])

NextPager == PageTurns \/ \E c \in Calls : NewMatchPlayed(c)

SpecPager == InitPager /\ [][NextPager]_vars /\ WF_vars(PageTurns)

\* One match of player S, its payload drawn from Payloads, then step 6.
NextPayload ==
    \/ \E payload \in Payloads : StoreMatch(payload, 1)
    \/ Report

SpecPayload == Init /\ [][NextPayload]_vars

\* The store of the example player, or an empty store.
InitStats ==
    /\ now = 0
    /\ timelineTable = <<>>
    /\ calls = [c \in Calls |-> IdleCall]
    /\ last = Response(IdleCall)
    /\ lastSync = [p \in Players |-> NoSync]
    /\ started = 0
    /\ workers = 1
    /\ scan = NoScan
    /\ listLog = <<>>
    /\ detailLog = <<>>
    /\ slotLog = <<>>
    /\ throttleLog = {}
    /\ retryLog = {}
    /\ report = NoReport
    /\ \/ matchTable = <<>>
       \/ matchTable = [i \in 1..10 |-> MatchFromPayload(100 + i, "S", ExamplePayloads[i])]

\* Up to MaxRows matches of player S, one after the other, and step 6 at
\* any time.
NextStats ==
    \/ \E payload \in SeasonPayloads : StoreMatch(payload, MaxRows)
    \/ Report

SpecStats == InitStats /\ [][NextStats]_vars

\* Player S syncs up to MaxRows matches, one at a time, each with one of
\* the payloads the extreme games are chosen among, and asks for the
\* summary at any time.
NextExtremes ==
    \/ \E payload \in ExtremePayloads : StoreMatch(payload, MaxRows)
    \/ Report

SpecExtremes == Init /\ [][NextExtremes]_vars

\* The sync call of player W has fetched all but the last of its n new
\* matches, each with a record; the table is empty or holds the row of
\* another player for the last match.
InitWrite ==
    /\ now = 0
    /\ timelineTable = <<>>
    /\ last = Response(IdleCall)
    /\ lastSync = [p \in Players |-> NoSync]
    /\ started = 1
    /\ workers = 1
    /\ scan = NoScan
    /\ listLog = <<>>
    /\ detailLog = <<>>
    /\ slotLog = <<>>
    /\ throttleLog = {}
    /\ retryLog = {}
    /\ report = NoReport
    /\ \E n \in 1..(2 * BatchSize + LastBatch) :
          /\ matchTable \in {<<>>, <<[id |-> 4000 + n, puuid |-> "V",
                                     timestamp |-> GameStart(4000 + n)]>>}
          /\ calls = [c \in Calls |->
                IF c = 1
                THEN [IdleCall EXCEPT
                        !.kind = "sync", !.pc = "fetch", !.puuid = "W", !.account_calls = 1,
                        !.match_ids = [i \in 1..n |-> 4000 + i],
                        !.new_ids = [i \in 1..n |-> 4000 + i],
                        !.results = [i \in 1..(n - 1) |->
                                        [id |-> 4000 + i, puuid |-> "W",
                                         timestamp |-> GameStart(4000 + i)]]]
                ELSE IdleCall]

NextWrite ==
    \E c \in Calls :
        \/ \E k \in Throttles, final \in {"200", "500", "exc"} : FetchDetail(c, k, final)
        \/ \E fails \in 0..DbRetries : InsertBatch(c, fails)
        \/ Summarize(c)

SpecWrite == InitWrite /\ [][NextWrite]_vars

\* One timeline of player S is analysed, for every sequence of gold
\* differences of up to MaxFrames frames.
NextInsight == \E gold_diffs \in GoldDiffs : ProcessTimeline(gold_diffs, 1)

SpecInsight == Init /\ [][NextInsight]_vars

\* Up to MaxRows timelines of player S are analysed one after the other,
\* and the statistics over the summaries are asked for at any time.
NextTally ==
    \/ \E gold_diffs \in TallyDiffs : ProcessTimeline(gold_diffs, MaxRows)
    \/ TimelineStats

SpecTally == Init /\ [][NextTally]_vars

\* A timeline of player S has come in and its frames are about to be
\* scanned, for every sequence of up to MaxScan frames.
InitScan ==
    /\ now = 0
    /\ matchTable = <<>>
    /\ timelineTable = <<>>
    /\ calls = [c \in Calls |-> IdleCall]
    /\ last = Response(IdleCall)
    /\ lastSync = [p \in Players |-> NoSync]
    /\ started = 0
    /\ workers = 1
    /\ scan \in {StartScan(frames) : frames \in FrameSeqs}
    /\ listLog = <<>>
    /\ detailLog = <<>>
    /\ slotLog = <<>>
    /\ throttleLog = {}
    /\ retryLog = {}
    /\ report = NoReport

NextScan == ScanFrame

SpecScan == InitScan /\ [][NextScan]_vars

\* Two requests with the same tag, one to /get-stats and one to
\* /process-timelines, have their puuid; the region endpoint gives both the
\* same answer.
InitRouting ==
    /\ now = 0
    /\ matchTable = <<>>
    /\ timelineTable = <<>>
    /\ \E tag_line \in RegionStrings,
          answer \in ({"200"} \X (RegionStrings \cup {"", NoRegion}))
                        \cup ({"404", "503", "exc"} \X {NoRegion}) :
          calls = [c \in Calls |->
                     [IdleCall EXCEPT !.kind = IF c = 1 THEN "sync" ELSE "timeline",
                                      !.pc = "routing", !.puuid = "S", !.account_calls = 1,
                                      !.tag_line = tag_line,
                                      !.region_status = answer[1],
                                      !.region = answer[2]]]
    /\ last = Response(IdleCall)
    /\ lastSync = [p \in Players |-> NoSync]
    /\ started = 2
    /\ workers = 2
    /\ scan = NoScan
    /\ listLog = <<>>
    /\ detailLog = <<>>
    /\ slotLog = <<>>
    /\ throttleLog = {}
    /\ retryLog = {}
    /\ report = NoReport

NextRouting == \E c \in Calls : ResolveRouting(c)

SpecRouting == InitRouting /\ [][NextRouting]_vars

-----------------------------------------------------------------------------
(* Properties *)

SyncAt(c, pc) == calls[c].kind = "sync" /\ calls[c].pc = pc

Idle == \A c \in Calls : calls[c].pc = "idle"

\* C1: when a sync call of a player has fetched a record of a match that
\* another player has a row for, and no write failed for lack of the
\* database, the row of this player is in the store once the write phase is
\* over.
C1_CrossPlayerIngest ==
    \A c \in Calls : (SyncAt(c, "summary") /\ ~calls[c].dbFailed) =>
        \A i \in 1..Len(calls[c].results) :
            LET r == calls[c].results[i]
            IN  (/\ r # None
                 /\ \E j \in 1..Len(matchTable) :
                        matchTable[j].id = r.id /\ matchTable[j].puuid # r.puuid)
                => HasRow(matchTable, r.id, r.puuid)

\* C2: no two rows of `match` share (id, puuid), and no two rows of
\* `match_timeline_summary` share (match_id, puuid).
C2_UniquePairs ==
    /\ \A i, j \in 1..Len(matchTable) :
          (matchTable[i].id = matchTable[j].id
           /\ matchTable[i].puuid = matchTable[j].puuid) => i = j
    /\ \A i, j \in 1..Len(timelineTable) :
          TimelineKey(timelineTable[i]) = TimelineKey(timelineTable[j]) => i = j

\* Two calls raced for the same pair: one of them holds a record of a match
\* that is stored for its player, and its own write was refused.
C2_Witness ==
    \E c \in Calls :
        /\ SyncAt(c, "summary") /\ ~calls[c].dbFailed /\ calls[c].inserted = 0
        /\ \E i \in 1..Len(calls[c].results) :
              /\ calls[c].results[i] # None
              /\ HasRow(matchTable, calls[c].results[i].id, calls[c].puuid)

C4_WatermarkComplete ==
    Idle =>
        \A p \in Players : \A i \in 1..Len(Listing(p)) :
            LET m == Listing(p)[i]
            IN  (/\ p \in Participants(m)
                 /\ RowsOf(matchTable, p) # <<>>
                 /\ GameStart(m) \div 1000 < StartTime(matchTable, p, now))
                => HasRow(matchTable, m, p)

\* C5: a sync call in which the fetch of an item failed still answers 200.
C5_ItemFailureDoesNotFailCall ==
    (last.kind = "sync" /\ last.itemFailed) => last.status = 200

\* C6: a sync call whose INSERT kept failing until the attempts were used up
\* answers with an error.
C6_PersistenceFailureSurfaced ==
    (last.kind = "sync" /\ last.dbFailed) => last.status # 200

RECURSIVE SumLog(_, _)
\* The requests a log holds at the ticks of S.
SumLog(log, S) ==
    IF S = {} THEN 0
    ELSE LET t == CHOOSE x \in S : TRUE
         IN  log[t] + SumLog(log, S \ {t})

\* The requests issued in the second that begins at tick t.
InWindow(log, t) == SumLog(log, {u \in DOMAIN log : t <= u /\ u < t + TicksPerSec})

\* C7: no second of a sync call holds more than 20 match-detail requests.
C7_DetailRate ==
    \A t \in DOMAIN detailLog : InWindow(detailLog, t) <= RateBudget

\* C8, as stated: every match-ID request of a sync call, retries included,
\* has passed the rate check of the paging loop, and no second holds more
\* than 20 of them.
C8_EveryListingRequestGoverned ==
    /\ \A c \in Calls : calls[c].kind = "sync" =>
           SumLog(listLog, DOMAIN listLog) <= calls[c].turns
    /\ \A t \in DOMAIN listLog : InWindow(listLog, t) <= RateBudget

\* C8, amended: the rate check is passed once per page, whose request is
\* sent at most 5 times; no second holds more than these 5 requests of one
\* page, which is within the 20.
C8_ListingRate ==
    /\ \A c \in Calls : calls[c].kind = "sync" =>
           SumLog(listLog, DOMAIN listLog) <= MaxRetries * calls[c].turns
    /\ \A t \in DOMAIN listLog : InWindow(listLog, t) <= MaxRetries
    /\ MaxRetries <= RateBudget

\* The call is past its first page, and one of its pages was requested 5
\* times within one second.
C8_Witness ==
    \E c \in Calls :
        /\ calls[c].kind = "sync" /\ calls[c].turns >= 2
        /\ calls[c].match_ids # <<>>
        /\ \E t \in DOMAIN listLog : InWindow(listLog, t) = MaxRetries

\* The quotient is at least 0 and at most 1.
InUnit(r) == r.den > 0 /\ 0 <= r.num /\ r.num <= r.den

\* The quotient is 0.
IsZero(r) == r.den > 0 /\ r.num = 0

\* The rows step 6 has read.
Reported == RowsOf(matchTable, "S")

\* C11: the kill participation of every match in the summary is in [0, 1]
\* when the team has kills, and 0 when it has none.
C11_KillParticipationInUnit ==
    report # NoReport =>
        \A i \in DOMAIN report.kp :
            IF i <= Len(Reported) /\ Reported[i].team_kills = 0
            THEN IsZero(report.kp[i]) ELSE InUnit(report.kp[i])

\* C12: the damage, gold and vision share of every match in the summary is
\* in [0, 1] when the team total is positive, and 0 when it is 0.
C12_SharesInUnit ==
    report # NoReport =>
        \A i \in DOMAIN report.kp :
            LET m == Reported[i]
            IN  /\ IF m.team_damage = 0 THEN IsZero(report.damage_share[i])
                   ELSE InUnit(report.damage_share[i])
                /\ IF m.team_gold = 0 THEN IsZero(report.gold_share[i])
                   ELSE InUnit(report.gold_share[i])
                /\ IF m.team_vision = 0 THEN IsZero(report.vision_share[i])
                   ELSE InUnit(report.vision_share[i])
                /\ m.team_damage >= m.damage /\ m.team_gold >= m.gold
                /\ m.team_vision >= m.vision

\* A match whose team has damage, gold and vision, the player part of it,
\* and a match whose team totals are 0 have been summarized.
C12_Witness ==
    /\ report # NoReport
    /\ \E i \in DOMAIN report.kp :
          /\ report.damage_share[i].num > 0
          /\ report.damage_share[i].num < report.damage_share[i].den
          /\ report.gold_share[i].num = report.gold_share[i].den
          /\ Reported[i].team_vision = 0

\* The sum of one field over all month buckets.
MonthlySum(monthly_stats, field) ==
    LET SumOver[S \in SUBSET DOMAIN monthly_stats] ==
            IF S = {} THEN 0
            ELSE LET mo == CHOOSE x \in S : TRUE
                 IN  monthly_stats[mo][field] + SumOver[S \ {mo}]
    IN  SumOver[DOMAIN monthly_stats]

Nearest2(r, n, d) ==
    LET diff == r * d - 100 * n
    IN  2 * (IF diff < 0 THEN -diff ELSE diff) <= d

\* C15: the totals of the summary are those of the matches read, win_rate
\* and the averages are the quotients to two decimals, and 10 matches with
\* 6 wins and 24/40/60 give 60.00, 2.40, 4.00 and 6.00.
C15_RatesAndAverages ==
    (report # NoReport /\ report.total_matches = Len(Reported)) =>
        LET n == report.total_matches
        IN  /\ report.total_wins = Len(SelectSeq(Reported, LAMBDA m : m.win))
            /\ Nearest2(report.win_rate, 100 * report.total_wins, n)
            /\ Nearest2(report.avg_kills, report.total_kills, n)
            /\ Nearest2(report.avg_deaths, report.total_deaths, n)
            /\ Nearest2(report.avg_assists, report.total_assists, n)
            /\ (/\ n = 10 /\ report.total_wins = 6 /\ report.total_kills = 24
                /\ report.total_deaths = 40 /\ report.total_assists = 60)
               => (/\ report.win_rate = 6000 /\ report.avg_kills = 240
                   /\ report.avg_deaths = 400 /\ report.avg_assists = 600)

\* The example player has been summarized.
C15_Witness ==
    /\ report # NoReport
    /\ report.total_matches = 10 /\ report.total_wins = 6
    /\ report.total_kills = 24 /\ report.total_deaths = 40 /\ report.total_assists = 60

\* A sync call of p starts in slot c in this step.
SyncStarts(c, p) ==
    /\ calls[c].pc = "idle"
    /\ calls'[c].kind = "sync" /\ calls'[c].pc = "paging" /\ calls'[c].puuid = p

\* The last sync call of p, with no other call of p beside it, inserted no row.
AfterIdleSync(p) ==
    /\ lastSync[p].state # "none" /\ lastSync[p].inserted = 0
    /\ ActiveSync(p) = {}

\* C9, as stated: the lower bound of a sync call equals the lower bound of
\* the player's previous call when that call inserted no row.
C9_WatermarkFrame ==
    [][\A c \in Calls, p \in Players :
          (SyncStarts(c, p) /\ AfterIdleSync(p))
          => calls'[c].start_time = lastSync[p].start_time]_vars

\* C9, amended: the same for a player that has a stored match; for a player
\* with no stored match the lower bound is the second of the call (on the
\* axis that starts 365 days back), so it moves with the clock.
C9_WatermarkFrameStored ==
    [][\A c \in Calls, p \in Players :
          /\ (SyncStarts(c, p) /\ AfterIdleSync(p) /\ RowsOf(matchTable, p) # <<>>)
             => calls'[c].start_time = lastSync[p].start_time
          /\ (SyncStarts(c, p) /\ RowsOf(matchTable, p) = <<>>)
             => calls'[c].start_time = now \div TicksPerSec]_vars

\* A call of a player with stored matches follows a call that inserted
\* nothing, at a later second.
C9_Witness ==
    \E c \in Calls :
        /\ SyncAt(c, "paging")
        /\ lastSync[calls[c].puuid].state # "none"
        /\ lastSync[calls[c].puuid].inserted = 0
        /\ RowsOf(matchTable, calls[c].puuid) # <<>>
        /\ now > 0

\* C10: a timeline call fetches no id whose pair had a summary when the call
\* looked, and no step adds a summary for a pair that has one or changes a
\* stored summary.
C10_NoSummaryTwice ==
    /\ [](\A c \in Calls : calls[c].kind = "timeline" =>
            \A i \in 1..Len(calls[c].results) :
                <<calls[c].new_ids[i], calls[c].puuid>> \notin calls[c].existing_summaries)
    /\ [][/\ Len(timelineTable') >= Len(timelineTable)
          /\ \A i \in 1..Len(timelineTable) : timelineTable'[i] = timelineTable[i]
          /\ \A j \in (Len(timelineTable) + 1)..Len(timelineTable') :
                \A i \in 1..Len(timelineTable) :
                    TimelineKey(timelineTable'[j]) # TimelineKey(timelineTable[i])]_vars

\* A second run: one pair is skipped, another one has been fetched.
C10_Witness ==
    \E c \in Calls :
        /\ calls[c].kind = "timeline"
        /\ calls[c].existing_summaries # {}
        /\ calls[c].results # <<>>

\* The labels of the classification.
ComebackTypes == {"dominated", "comeback", "throw", "fell_behind", "neutral"}

\* The early dominance is the whole number n.
RatioIs(r, n) == r.num = n * r.den

\* The summaries that carry the insights.
Classified == {r \in SeqToSet(timelineTable) : "comeback_type" \in DOMAIN r}

\* C14: every summary carries exactly one of the five labels, decided by the
\* early dominance and the last difference alone: dominated iff early > 100
\* and last > 500, comeback iff early < -100 and last > 500, throw iff
\* early > 100 and last < -500, fell_behind iff early < -100 and last < -500,
\* neutral otherwise; (150, 800) is dominated, (-200, 900) a comeback and
\* (50, 50) neutral.
C14_ComebackClassification ==
    \A r \in Classified :
        LET e == r.early_dominance
            l == r.last_diff
            t == r.comeback_type
        IN  /\ t \in ComebackTypes
            /\ t = "dominated" <=> (RatioGt(e, 100) /\ l > 500)
            /\ t = "comeback" <=> (RatioLt(e, -100) /\ l > 500)
            /\ t = "throw" <=> (RatioGt(e, 100) /\ l < -500)
            /\ t = "fell_behind" <=> (RatioLt(e, -100) /\ l < -500)
            /\ t = "neutral" <=> ~ \/ (RatioGt(e, 100) \/ RatioLt(e, -100)) /\ l > 500
                                   \/ (RatioGt(e, 100) \/ RatioLt(e, -100)) /\ l < -500
            /\ (RatioIs(e, 150) /\ l = 800) => t = "dominated"
            /\ (RatioIs(e, -200) /\ l = 900) => t = "comeback"
            /\ (RatioIs(e, 50) /\ l = 50) => t = "neutral"

\* A match with early dominance 150 and last difference 800 is classified.
C14_Witness ==
    \E r \in Classified :
        RatioIs(r.early_dominance, 150) /\ r.last_diff = 800 /\ r.comeback_type = "dominated"

Clusters == {"americas", "europe", "asia", "sea"}

\* The cluster whose table holds the string t, americas when none does.
ClusterOf(t) ==
    IF t \in europe THEN "europe"
    ELSE IF t \in asia THEN "asia"
    ELSE IF t \in sea THEN "sea"
    ELSE "americas"

Recognized(t) == t \in americas \cup europe \cup asia \cup sea

\* The calls whose routing is resolved.
Routed == {c \in Calls : calls[c].pc = "routed"}

\* The region lookup of call c failed: no 200, or a 200 without a region.
LookupFailed(c) ==
    calls[c].region_status # "200" \/ calls[c].region \in {"", NoRegion}

\* C16 as stated: every resolved routing is one of the four clusters, the
\* same for the same input, and it is americas whenever the active region is
\* unrecognized or the region lookup failed.
C16_FallbackIsAmericas ==
    \A c \in Routed :
        /\ calls[c].routing \in Clusters
        /\ \A d \in Routed : calls[d].routing = calls[c].routing
        /\ (LookupFailed(c) \/ ~Recognized(Upper(calls[c].region)))
              => calls[c].routing = "americas"

\* C16, amended: every resolved routing is one of the four clusters, the
\* same for the same input; with an active region it is the cluster of that
\* region in upper case, americas when the region is unrecognized; when the
\* lookup failed it is the cluster of the tag in upper case, americas when
\* the tag is unrecognized.
C16_RoutingTotal ==
    \A c \in Routed :
        /\ calls[c].routing \in Clusters
        /\ \A d \in Routed : calls[d].routing = calls[c].routing
        /\ ~LookupFailed(c) => calls[c].routing = ClusterOf(Upper(calls[c].region))
        /\ (~LookupFailed(c) /\ ~Recognized(Upper(calls[c].region)))
              => calls[c].routing = "americas"
        /\ LookupFailed(c) => calls[c].routing = ClusterOf(Upper(calls[c].tag_line))
        /\ (LookupFailed(c) /\ ~Recognized(Upper(calls[c].tag_line)))
              => calls[c].routing = "americas"

\* Both calls are routed to europe by their tag after the lookup failed.
C16_Witness ==
    /\ Routed = Calls
    /\ \A c \in Calls : /\ calls[c].region_status = "503"
                        /\ calls[c].tag_line = "euw1"
                        /\ calls[c].routing = "europe"

\* C17: a /get-stats call whose account lookup is answered with a status
\* other than 200, or with 200 and no puuid, returns at once with that
\* status (500 without puuid) after one account request; no listing or
\* detail request is issued and both tables are as before.
C17_AccountErrorEndsSync ==
    [][\A c \in Calls, p \in Players, status \in AccountStatuses, hasPuuid \in BOOLEAN :
          (SyncStart(c, p, status, hasPuuid) /\ (status # 200 \/ ~hasPuuid)) =>
             /\ calls'[c] = IdleCall
             /\ last'.kind = "sync"
             /\ last'.status = IF status # 200 THEN status ELSE 500
             /\ last'.account_calls = 1
             /\ \A d \in Calls : calls'[d] = calls[d]
             /\ UNCHANGED <<matchTable, timelineTable, listLog, detailLog, lastSync>>]_vars

\* A /get-stats call has returned 403 while the store holds rows.
C17_Witness ==
    /\ last.kind = "sync" /\ last.status = 403 /\ last.account_calls = 1
    /\ matchTable # <<>>

\* The permits held at tick t.
InFlight(log, t) == SumLog(log, {e \in DOMAIN log : e.acquired <= t /\ t < e.released})

\* At no tick are more than 15 detail fetches in flight: the permits held
\* grow only when one is taken.
AtMostConcurrencyInFlight ==
    \A e \in DOMAIN slotLog : InFlight(slotLog, e.acquired) <= Concurrency

\* C18, for /get-stats: at no tick are more than 15 detail fetches in
\* flight, and every permit is given back 1.3 s after its fetch has ended,
\* with or without a record, not before.
C18_SlotHeldThroughPacing ==
    /\ AtMostConcurrencyInFlight
    /\ \A e \in DOMAIN slotLog : e.released >= e.finished + DetailPacing

\* C19: a fetch is held back by the ceiling only.  When a permit is given
\* back and fewer than 15 are held, no fetch of the call begins later than
\* that tick.
C19_OnlyTheCeilingHoldsBack ==
    \A e, f \in DOMAIN slotLog :
        (f.released < e.acquired) => InFlight(slotLog, f.released) >= Concurrency

\* The ticks at which a detail request was issued.
RequestTicks == DOMAIN detailLog

\* C20: between a 429 and the end of the wait it announces, no detail
\* request of the call is issued.
C20_SharedThrottleClock ==
    \A w \in throttleLog : \A u \in RequestTicks : ~(w.at < u /\ u < w.until)

\* The wait a throttling answer with Retry-After header h asks for, in ticks.
AnnouncedWait(h) == IF h = NoHeader THEN 120 * TicksPerSec ELSE h * TicksPerSec

\* The throttling answers of a trace.
Throttled(tr) == {i \in DOMAIN tr.answers : tr.answers[i] = "429"}

\* C21: a retry loop for a page, a match or a timeline sends at most 5
\* requests; after every 429 it waits as long as the answer announces, 120 s
\* without announcement, before the next request or before it returns; and
\* after 5 throttling answers it returns an empty page or no record.
C21_RetryBudget ==
    \A tr \in retryLog :
        /\ Len(tr.sent) <= 5
        /\ \A i \in Throttled(tr) :
              IF i < Len(tr.sent)
              THEN tr.sent[i + 1] = tr.sent[i] + Latency + AnnouncedWait(tr.header)
              ELSE tr.end = tr.sent[i] + Latency + AnnouncedWait(tr.header)
        /\ Cardinality(Throttled(tr)) = 5 => tr.empty

\* One match of the call has been given up after 5 throttling answers
\* without Retry-After, and another match of it has a record after one
\* throttling answer.
C21_Witness ==
    /\ \E tr \in retryLog :
          /\ tr.kind = "detail" /\ Cardinality(Throttled(tr)) = 5
          /\ tr.header = NoHeader /\ tr.empty
    /\ \E tr \in retryLog :
          tr.kind = "detail" /\ Cardinality(Throttled(tr)) = 1 /\ ~tr.empty

\* No id occurs twice in ids.
NoDuplicates(ids) == \A i, j \in 1..Len(ids) : ids[i] = ids[j] => i = j

\* C22: the list of ids a sync call has collected from its pages holds every
\* id once at most.
C22_PagerDeduplicates ==
    \A c \in Calls : calls[c].kind = "sync" => NoDuplicates(calls[c].match_ids)

\* C23: a page answered with a status that is neither 2xx nor 429 ends the
\* paging like an empty page: the handler goes on to the diff with the ids
\* of the earlier pages and returns nothing yet; these ids are diffed
\* against the store, every new one is fetched, the rows of the batches
\* that were written are in the store, and the call answers 200.
C23_FailedPageIsEmptyPage ==
    [][\A c \in Calls :
          LET me == calls[c]
          IN  /\ \A k \in {0, 1} :
                    FetchPage(c, k, "500") =>
                       /\ calls'[c].pc = "diff"
                       /\ calls'[c].match_ids = me.match_ids
                       /\ last' = last
              /\ (me.page_status = "500" /\ me.pc = "diff" /\ calls'[c].pc # "diff") =>
                    calls'[c].new_ids = NewIds(matchTable, me.match_ids, me.puuid)
              /\ (me.page_status = "500" /\ me.pc = "summary" /\ calls'[c].pc = "idle") =>
                    /\ last'.kind = "sync" /\ last'.status = 200
                    /\ Len(me.results) = Len(me.new_ids)
                    /\ \A i \in 1..me.inserted :
                          HasRow(matchTable, new_matches(me.results)[i].id, me.puuid)]_vars

\* The second page of a call of A was answered 500; the two ids of the first
\* page have been fetched and their rows are stored.
C23_Witness ==
    \E c \in Calls :
        /\ calls[c].pc = "summary" /\ calls[c].puuid = "A"
        /\ calls[c].page_status = "500"
        /\ calls[c].match_ids = <<2, 1>> /\ calls[c].inserted = 2
        /\ HasRow(matchTable, 1, "A") /\ HasRow(matchTable, 2, "A")

\* The page loops that have run.
Pages == {tr \in retryLog : tr.kind = "page"}

\* The pages were requested at the offsets 0, 100, 200, ..., each once and
\* each after the loop of the page before it had returned ids; an empty page
\* is the last one.
PagesInOrder ==
    /\ \A tr \in Pages : \E i \in 0..(Cardinality(Pages) - 1) : tr.item = 100 * i
    /\ \A tr1, tr2 \in Pages : tr1.item = tr2.item => tr1 = tr2
    /\ \A tr1, tr2 \in Pages :
          tr1.item < tr2.item => (~tr1.empty /\ tr1.end <= tr2.sent[1])
    /\ \A c \in Calls : calls[c].pc = "paging" => \A tr \in Pages : ~tr.empty

\* No call is paging.
PagingOver == \A c \in Calls : calls[c].pc # "paging"

\* C24: pages are requested one at a time at the offsets 0, 100, 200, ...,
\* none after the first empty page, and when every request is answered the
\* paging ends.
C24_PagerSequentialAndTerminates == []PagesInOrder /\ <>[]PagingOver

\* The pager has requested the offsets 0, 100, 200 and 300 and has stopped at
\* the empty page at 300.
C24_Witness ==
    /\ PagingOver
    /\ \E tr \in Pages : tr.item = 300 /\ tr.empty /\ tr.answers[Len(tr.answers)] = "200"
    /\ Cardinality(Pages) = 4

\* The records a call has fetched and the rows of the table that are its.
Fetched(c) == new_matches(calls[c].results)

\* The rows of the batches written so far by the call in slot c are in the
\* table, as they were fetched.
WrittenRowsStay ==
    \A c \in Calls :
        calls[c].kind = "sync" =>
            \A i \in 1..calls[c].inserted :
                \E j \in 1..Len(matchTable) : matchTable[j] = Fetched(c)[i]

\* The table changes only by a batch of the call in slot c: all fetches of
\* the call are done, and the rows added are the next rows of its records,
\* 50 at most, after the rows the table held.
WriteIsNextBatch(c) ==
    LET me == calls[c]
        added == Len(matchTable') - Len(matchTable)
    IN  /\ me.pc = "insert" /\ Len(me.results) = Len(me.new_ids)
        /\ added >= 1 /\ added <= 50
        /\ calls'[c].inserted = me.inserted + added
        /\ matchTable' = matchTable \o SubSeq(Fetched(c), me.inserted + 1, me.inserted + added)

\* C25: the records of a call are written after all its fetches, in batches
\* of 50 at most, one after the other in the order of the records; a batch
\* that fails leaves the table as it was, with the rows of the batches
\* written before it.
C25_BatchesCommitOneByOne ==
    /\ []WrittenRowsStay
    /\ [][/\ matchTable' # matchTable => \E c \in Calls : WriteIsNextBatch(c)
          /\ \A c \in Calls :
                (calls[c].pc = "insert" /\ calls'[c].pc = "summary"
                   /\ calls'[c].inserted < Len(Fetched(c)))
                => matchTable' = matchTable]_vars

\* The second batch of a call has failed after the first batch of 50 rows was
\* written; the 50 rows are in the table.
C25_Witness ==
    \E c \in Calls :
        /\ calls[c].pc = "summary" /\ calls[c].puuid = "W"
        /\ calls[c].inserted = 50 /\ Len(Fetched(c)) > 50
        /\ \A i \in 1..50 : \E j \in 1..Len(matchTable) : matchTable[j] = Fetched(c)[i]

\* The summaries among the results of a call.
Summaries(results) == SelectSeq(results, LAMBDA r : r # NoSummary)

\* C26: a timeline that is read and gives no gold difference yields no
\* summary: the handler goes on with the other items and returns nothing
\* yet, the commit adds the summaries of the other items only, and the call
\* answers 200 with processed = the number of summaries.
C26_NoSamplesNoSummary ==
    [][\A c \in Calls :
          LET me == calls[c]
          IN  /\ \A k \in {0, 1} :
                    TimelineFetch(c, k, "200", FALSE) =>
                       /\ calls'[c].results = Append(me.results, NoSummary)
                       /\ calls'[c].pc \in {"fetch", "commit", "respond"}
                       /\ calls'[c].pc = "fetch" <=> Len(me.results) + 1 < Len(me.new_ids)
                       /\ UNCHANGED <<timelineTable, last>>
              /\ (me.kind = "timeline" /\ me.unproducible > 0
                    /\ timelineTable' # timelineTable) =>
                    /\ timelineTable' = timelineTable \o Summaries(me.results)
                    /\ Len(Summaries(me.results)) <= Len(me.results) - me.unproducible
              /\ (me.kind = "timeline" /\ me.unproducible > 0
                    /\ me.pc = "respond" /\ calls'[c].pc = "idle") =>
                    /\ last'.status = 200
                    /\ me.inserted = Len(Summaries(me.results))]_vars

\* A call of A is about to answer: one of its two timelines gave no gold
\* difference, the other one a summary, which is the only row of the table.
C26_Witness ==
    \E c \in Calls :
        /\ calls[c].kind = "timeline" /\ calls[c].pc = "respond" /\ calls[c].puuid = "A"
        /\ calls[c].unproducible = 1 /\ calls[c].inserted = 1
        /\ Len(calls[c].results) = 2
        /\ Len(timelineTable) = 1

-----------------------------------------------------------------------------
\* C27: every row of the match table has a duration above 0; a payload whose
\* info.gameDuration is 0 or missing leaves no row.
C27_StoredDurationPositive ==
    \A i \in 1..Len(matchTable) : matchTable[i].duration > 0

-----------------------------------------------------------------------------
\* The frames the loop has gone through in which the player's level is at
\* least the threshold.
FramesReaching(threshold) ==
    {i \in 1..scan.frame_idx :
        /\ "pf" \in DOMAIN scan.frames[i]
        /\ Get(scan.frames[i].pf, "level", 1) >= threshold}

\* The first of a non-empty set of frames.
First(frames) == CHOOSE i \in frames : \A j \in frames : i <= j

\* `time` is the timestamp of the first frame so far that reaches the
\* threshold, and None when there is no such frame.
LatchedAtFirst(time, threshold) ==
    IF FramesReaching(threshold) = {} THEN time = NoTime
    ELSE time = scan.frames[First(FramesReaching(threshold))].timestamp

\* C28: after every turn of the loop over the frames each of the milestones
\* 6, 11 and 16 holds the timestamp of the first frame so far whose level is
\* at least the threshold (so no later frame changes it) and is None when
\* there is none; a set milestone has every lower milestone set, at the
\* same or an earlier frame.
C28_MilestonesLatchOnce ==
    /\ LatchedAtFirst(scan.level_6_time, 6)
    /\ LatchedAtFirst(scan.level_11_time, 11)
    /\ LatchedAtFirst(scan.level_16_time, 16)
    /\ scan.level_16_time # NoTime =>
          /\ scan.level_11_time # NoTime
          /\ First(FramesReaching(11)) <= First(FramesReaching(16))
          /\ scan.level_11_time <= scan.level_16_time
    /\ scan.level_11_time # NoTime =>
          /\ scan.level_6_time # NoTime
          /\ First(FramesReaching(6)) <= First(FramesReaching(11))
          /\ scan.level_6_time <= scan.level_11_time

\* Three frames have been scanned: level 6 was reached in the first one, at
\* 0 ms, level 11 in the second one, and the third one, still above both,
\* has left them alone; level 16 was not reached.
C28_Witness ==
    /\ scan.frame_idx = 3
    /\ "pf" \in DOMAIN scan.frames[3]
    /\ Get(scan.frames[3].pf, "level", 1) = 15
    /\ scan.level_6_time = 0
    /\ scan.level_11_time = 60000
    /\ scan.level_16_time = NoTime

-----------------------------------------------------------------------------
\* The matches the summary was computed from.
Summarized == SubSeq(Reported, 1, report.total_matches)

\* `game` is the first of the summarized matches whose key is the largest
\* (sign 1) or the smallest (sign -1) of all.
FirstExtreme(game, key(_), sign) ==
    \E i \in 1..Len(Summarized) :
        /\ game = Summarized[i]
        /\ \A j \in 1..Len(Summarized) :
              LET a == key(Summarized[i])
                  b == key(Summarized[j])
              IN  /\ sign * b.num * a.den <= sign * a.num * b.den
                  /\ j < i => sign * b.num * a.den # sign * a.num * b.den

\* C29: each extreme game of the summary has the largest (the smallest for
\* the worst KDA and the fastest game) value of its field among the matches
\* of the player that were read, and is the first of the matches with that
\* value.
C29_ExtremesAreFirstBest ==
    report # NoReport =>
        LET e == report.extreme_games
            whole(n) == [num |-> n, den |-> 1]
            kills(m) == whole(m.kills)
            deaths(m) == whole(m.deaths)
            assists(m) == whole(m.assists)
            damage(m) == whole(m.damage)
            damage_taken(m) == whole(m.damage_taken)
            cs(m) == whole(m.cs + m.neutral_cs)
            duration(m) == whole(m.duration)
            ratio(m) == IF m.deaths > 0
                        THEN [num |-> m.kills + m.assists, den |-> m.deaths]
                        ELSE whole(m.kills + m.assists)
        IN  /\ FirstExtreme(e.highest_kill_game, kills, 1)
            /\ FirstExtreme(e.highest_death_game, deaths, 1)
            /\ FirstExtreme(e.highest_assist_game, assists, 1)
            /\ FirstExtreme(e.highest_damage_game, damage, 1)
            /\ FirstExtreme(e.highest_damage_taken_game, damage_taken, 1)
            /\ FirstExtreme(e.highest_cs_game, cs, 1)
            /\ FirstExtreme(e.best_kda_game, ratio, 1)
            /\ FirstExtreme(e.worst_kda_game, ratio, -1)
            /\ FirstExtreme(e.fastest_game, duration, -1)
            /\ FirstExtreme(e.longest_game, duration, 1)

\* Three matches have been summarized: the first two tie on the most kills,
\* on the best KDA and on the shortest length, and the first one was taken
\* each time; the third one has the worst KDA and is the longest.
C29_Witness ==
    /\ report # NoReport
    /\ report.total_matches = 3
    /\ Len(Reported) = 3
    /\ Reported[1].kills = 1 /\ Reported[2].kills = 1 /\ Reported[3].kills = 0
    /\ kda(Reported[1]) = Ratio(1, 1) /\ kda(Reported[2]) = Ratio(1, 1)
    /\ kda(Reported[3]) = Ratio(1, 2)
    /\ Reported[1].duration = Reported[2].duration
    /\ Reported[2].duration < Reported[3].duration
    /\ report.extreme_games.highest_kill_game.id = 101
    /\ report.extreme_games.best_kda_game.id = 101
    /\ report.extreme_games.fastest_game.id = 101
    /\ report.extreme_games.worst_kda_game.id = 103
    /\ report.extreme_games.longest_game.id = 103

-----------------------------------------------------------------------------
\* The count of the comeback pattern that stands for a classification.
CountOf(pattern, label) ==
    CASE label = "comeback" -> pattern.comeback_wins
      [] label = "throw" -> pattern.throws
      [] label = "dominated" -> pattern.dominant_wins
      [] label = "fell_behind" -> pattern.fell_behind_losses
      [] label = "neutral" -> pattern.neutral_games

\* The summaries the statistics were computed from.
Tallied == SubSeq(RowsOf(timelineTable, "S"), 1, report.total_matches)

\* C30: every summary the statistics were computed from carries one of the
\* five classifications, each count is the number of summaries with its
\* classification, and the five counts add up to the number of summaries.
C30_ComebackCountsPartition ==
    report # NoReport =>
        /\ \A i \in 1..Len(Tallied) : Tallied[i].comeback_type \in ComebackTypes
        /\ \A label \in ComebackTypes :
              CountOf(report.comeback_pattern, label)
                 = Cardinality({i \in 1..Len(Tallied) : Tallied[i].comeback_type = label})
        /\ report.comeback_pattern.comeback_wins + report.comeback_pattern.throws
              + report.comeback_pattern.dominant_wins
              + report.comeback_pattern.fell_behind_losses
              + report.comeback_pattern.neutral_games = report.total_matches

\* The statistics over three summaries: a comeback, a throw and a neutral
\* game.
C30_Witness ==
    /\ report # NoReport
    /\ report.total_matches = 3
    /\ report.comeback_pattern.comeback_wins = 1
    /\ report.comeback_pattern.throws = 1
    /\ report.comeback_pattern.neutral_games = 1
    /\ Len(timelineTable) = 3

====
